---- MODULE Spec2Model ----
(***************************************************************************)
(* Choreographed order saga: the Inventory, Payment and Order consumers,   *)
(* their stores and the broker queues between them.  Every handler is cut  *)
(* at its awaits (store read, commit, publish, acknowledgment), so that    *)
(* handler invocations of one consumer may overlap as aio_pika tasks do.   *)
(* A commit is one atomic step on the store; the tables enforce their      *)
(* primary keys.  The fields pre_*, commits and emitted of an invocation,  *)
(* and the variables stock0, published and delivered, record history only. *)
(***************************************************************************)
EXTENDS Integers, Sequences, FiniteSets, TLC

VARIABLES
    orders,         \* orders table: order id -> committed row
    stock,          \* inventory table: product_id -> stock (committed rows)
    stock0,         \* the inventory table as seeded, never written afterwards
    reservations,   \* inventory_reservations table: set of committed rows
    payments,       \* payments table: set of committed rows
    queues,         \* broker: queue name -> sequence of messages waiting
    published,      \* every event handed to the broker so far, in order
    delivered,      \* the messages handed over directly so far, in order
    redelivered,    \* how many unacknowledged messages went back to their queue
    acked,          \* how many deliveries the consumers acknowledged
    rejected,       \* how many deliveries the consumers rejected
    inv,            \* Inventory consumer: handler slot -> invocation state
    pay,            \* Payment consumer: handler slot -> invocation state
    ord             \* Order consumer: handler slot -> invocation state

vars == <<orders, stock, stock0, reservations, payments, queues, published, delivered,
          redelivered, acked, rejected, inv, pay, ord>>

\* What the Inventory handlers never touch, what the Payment handler never
\* touches, and what the Order handlers never touch.
notInventory == <<orders, stock0, payments, redelivered, acked, rejected, pay, ord>>
notPayment == <<orders, stock, stock0, reservations, redelivered, acked, rejected, inv, ord>>
notOrder == <<stock, stock0, reservations, payments, redelivered, acked, rejected, inv, pay>>

----------------------------------------------------------------------------
(* Bounds of the model *)

MaxStock == 2
MaxQty == 2
MaxDeliveries == 3
MaxPayDeliveries == 3
MaxOrderDeliveries == 3
MaxRedeliveries == 1
MaxHandlerDeliveries == 2

(* Program constants *)

MaxAttempts == 3
PlaceholderAmount == 100

Products == {"product-A", "product-B"}
Orders == {"o1", "o2"}
QueueNames == {"inventory_q", "payment_q", "order_q"}

Item == [product_id : Products, quantity : 1..MaxQty]
ItemLists == {<<a>> : a \in Item} \cup {<<a, b>> : a \in Item, b \in Item}
NoItems == <<>>

----------------------------------------------------------------------------
(* Events and the broker *)

Event(type, key, o, items, reason, amount) ==
    [event_type |-> type, routing_key |-> key, order_id |-> o,
     items |-> items, reason |-> reason, amount |-> amount]

OrderCreated(o, items) == Event("OrderCreated", "order.created", o, items, "", 0)
OrderCancelled(o, reason) == Event("OrderCancelled", "order.cancelled", o, NoItems, reason, 0)
InventoryReserved(o) == Event("InventoryReserved", "inventory.reserved", o, NoItems, "", 0)
InventoryUnavailable(o) ==
    Event("InventoryUnavailable", "inventory.unavailable", o, NoItems, "Insufficient stock", 0)
\* Bug variant: the amount is left out of the event.
PaymentProcessedWithoutAmount(o, amount) ==
    Event("PaymentProcessed", "payment.processed", o, NoItems, "", 0)

PaymentProcessed(o, amount) ==
    Event("PaymentProcessed", "payment.processed", o, NoItems, "", amount)
PaymentFailed(o) ==
    Event("PaymentFailed", "payment.failed", o, NoItems, "Payment failed after retries", 0)

\* Bug variant: payment_q is bound to inventory.unavailable as well.
BindingsUnavailableToPayment(key) ==
    CASE key \in {"order.created", "order.cancelled"} -> {"inventory_q"}
      [] key = "inventory.reserved" -> {"payment_q"}
      [] key = "inventory.unavailable" -> {"payment_q", "order_q"}
      [] key \in {"payment.processed", "payment.failed"} -> {"order_q"}
      [] OTHER -> {}

\* Bug variant: order.cancelled is bound to no queue.
BindingsWithoutCancelled(key) ==
    CASE key = "order.created" -> {"inventory_q"}
      [] key = "inventory.reserved" -> {"payment_q"}
      [] key \in {"inventory.unavailable", "payment.processed", "payment.failed"} -> {"order_q"}
      [] OTHER -> {}

\* The queues bound to a routing key.
Bindings(key) ==
    CASE key \in {"order.created", "order.cancelled"} -> {"inventory_q"}
      [] key = "inventory.reserved" -> {"payment_q"}
      [] key \in {"inventory.unavailable", "payment.processed", "payment.failed"} -> {"order_q"}
      [] OTHER -> {}

\* The broker state after `e` is published: appended to every bound queue.
Routed(qs, e) ==
    [q \in QueueNames |-> IF q \in Bindings(e.routing_key) THEN Append(qs[q], e) ELSE qs[q]]

publish_event(e) ==
    /\ queues' = Routed(queues, e)
    /\ published' = Append(published, e)

\* A body that is no JSON text.
NotJson == "{not json"

\* A delivery whose body is the text `body`.
Raw(key, body) == [routing_key |-> key, body |-> body]

\* An event whose JSON object lacks the key `field`.
Without(e, field) == [f \in DOMAIN e \ {field} |-> e[f]]

\* What the head of a handler raises on the message m:
\* event_data = json.loads(message.body), then event_data[f] for each f of
\* `fields`; "" when it raises nothing.
Raised(m, fields) ==
    IF "body" \in DOMAIN m THEN "JSONDecodeError"
    ELSE IF fields \ DOMAIN m # {} THEN "KeyError"
    ELSE ""

\* Bug variant: a body that does not parse leaves the handler.
EscapesDecodeError(error) == error = "JSONDecodeError"

\* Bug variant: an error of the store leaves the handler.
EscapesIntegrityError(error) == error = "IntegrityError"

\* The body of `async with message.process():` is one try / except Exception
\* that prints: no error of the handler's work leaves it.
Escapes(error) == FALSE

\* message.process() exits: the message is acknowledged when the body
\* returned, rejected without requeue when an exception left it.
process_exit(error) ==
    IF Escapes(error)
    THEN rejected' = rejected + 1 /\ UNCHANGED acked
    ELSE acked' = acked + 1 /\ UNCHANGED rejected

----------------------------------------------------------------------------
(* Inventory consumer *)

InvIdle ==
    [phase |-> "idle", message |-> <<>>, key |-> "", order_id |-> "", items |-> NoItems, i |-> 0,
     session |-> <<>>, reservations |-> <<>>, event |-> "",
     pre_stock |-> <<>>, pre_reservations |-> {}, commits |-> 0, emitted |-> <<>>,
     error |-> ""]

\* A handler invocation starts with an empty session; pre_* record the store
\* as it was when the message was taken.
InvStart(phase, m) ==
    [InvIdle EXCEPT !.phase = phase, !.message = m, !.key = m.routing_key, !.order_id = m.order_id, !.items = m.items, !.i = 1,
                    !.pre_stock = stock, !.pre_reservations = reservations]

Reservation(o, p, q) == [order_id |-> o, product_id |-> p, quantity |-> q]

\* session.get(Inventory, p): the session's own object when it has one, else
\* the committed row; "none" when there is no row.
session_get(h, p) ==
    IF p \in DOMAIN inv[h].session THEN inv[h].session[p]
    ELSE IF p \in DOMAIN stock THEN stock[p] ELSE -1

Loaded(sess, p, v) == [x \in DOMAIN sess \cup {p} |-> IF x = p THEN v ELSE sess[x]]

\* on_message, routing key order.created: process_order_created starts on `m`.
on_message_order_created(h, m) ==
    /\ inv[h].phase = "idle"
    /\ m.routing_key = "order.created"
    /\ Raised(m, {"order_id", "items"}) = ""
    /\ inv' = [inv EXCEPT ![h] = InvStart("check", m)]
    /\ UNCHANGED <<stock, reservations, published, notInventory>>

\* Bug variant: no stock is refused.
InsufficientNever(have, quantity) == FALSE

\* Bug variant: only an empty stock is refused.
InsufficientOnlyWhenEmpty(have, quantity) == have <= 0

\* The stock test of one line item.
Insufficient(have, quantity) == have < quantity

\* 1. Check stock and prepare reservations: one line item per step.
process_order_created_check(h) ==
    /\ inv[h].phase = "check"
    /\ LET s == inv[h]
           item == s.items[s.i]
           have == session_get(h, item.product_id)
       IN  IF have = -1 \/ Insufficient(have, item.quantity)
           THEN inv' = [inv EXCEPT ![h].phase = "publish",
                                   ![h].event = "InventoryUnavailable"]
           ELSE inv' = [inv EXCEPT
                    ![h].session = Loaded(s.session, item.product_id, have),
                    ![h].reservations =
                        Append(@, Reservation(s.order_id, item.product_id, item.quantity)),
                    ![h].i = @ + 1,
                    ![h].phase = IF s.i = Len(s.items) THEN "commit" ELSE "check"]
    /\ UNCHANGED <<stock, reservations, queues, published, notInventory, delivered>>

\* Bug variant: the stock is written back as read.
DebitNothing(have, quantity) == have

\* inventory.stock -= res.quantity
Debit(have, quantity) == have - quantity

\* The session's stock objects after the decrement of every prepared reservation.
RECURSIVE Decremented(_, _)
Decremented(sess, rs) ==
    IF rs = <<>> THEN sess
    ELSE Decremented([sess EXCEPT ![Head(rs).product_id] = Debit(@, Head(rs).quantity)],
                     Tail(rs))

Key(r) == <<r.order_id, r.product_id>>

\* Bug variant: rows of one insert are not compared with each other.
ReservationKeyConflictWithTableOnly(rs) ==
    \E k \in DOMAIN rs : \E r \in reservations : Key(r) = Key(rs[k])

\* The primary key (order_id, product_id) refuses the insert of rows `rs`.
ReservationKeyConflict(rs) ==
    \/ \E k \in DOMAIN rs : \E r \in reservations : Key(r) = Key(rs[k])
    \/ \E k, l \in DOMAIN rs : k # l /\ Key(rs[k]) = Key(rs[l])

Range(seq) == {seq[k] : k \in DOMAIN seq}

\* The inventory table after the session's objects are written.
Flushed(sess) == [p \in DOMAIN stock |-> IF p \in DOMAIN sess THEN sess[p] ELSE stock[p]]

\* Bug variant: the message is acknowledged as soon as the reservation is
\* stored, the event is published afterwards.
process_order_created_commit_then_ack(h) ==
    /\ inv[h].phase = "commit"
    /\ IF ReservationKeyConflict(inv[h].reservations)
       THEN /\ inv' = [inv EXCEPT ![h].phase = "ack", ![h].error = "IntegrityError"]
            /\ UNCHANGED <<stock, reservations, acked>>
       ELSE /\ stock' = Flushed(Decremented(inv[h].session, inv[h].reservations))
            /\ reservations' = reservations \cup Range(inv[h].reservations)
            /\ acked' = acked + 1
            /\ inv' = [inv EXCEPT ![h].phase = "publish", ![h].event = "InventoryReserved",
                                  ![h].commits = @ + 1]
    /\ UNCHANGED <<orders, stock0, payments, redelivered, rejected, pay, ord, queues,
                   published, delivered>>

\* 2. Decrement stock and save reservations, session.commit().  The read took
\* no row lock: the UPDATE carries the value computed in the session, whatever
\* was committed to the row in between.
process_order_created_commit(h) ==
    /\ inv[h].phase = "commit"
    /\ IF ReservationKeyConflict(inv[h].reservations)
       THEN \* IntegrityError: rolled back, caught by the handler's except
            /\ inv' = [inv EXCEPT ![h].phase = "ack", ![h].error = "IntegrityError"]
            /\ UNCHANGED <<stock, reservations>>
       ELSE /\ stock' = Flushed(Decremented(inv[h].session, inv[h].reservations))
            /\ reservations' = reservations \cup Range(inv[h].reservations)
            /\ inv' = [inv EXCEPT ![h].phase = "publish", ![h].event = "InventoryReserved",
                                  ![h].commits = @ + 1]
    /\ UNCHANGED <<queues, published, notInventory, delivered>>

\* 3./4. Publish InventoryReserved or InventoryUnavailable.
process_order_created_publish(h) ==
    /\ inv[h].phase = "publish"
    /\ LET e == IF inv[h].event = "InventoryReserved"
                THEN InventoryReserved(inv[h].order_id)
                ELSE InventoryUnavailable(inv[h].order_id)
       IN  /\ publish_event(e)
           /\ inv' = [inv EXCEPT ![h].phase = "ack", ![h].emitted = Append(@, e)]
    /\ UNCHANGED <<stock, reservations, notInventory, delivered>>

\* publish_event raises (aio_pika.connect_robust cannot reach the broker):
\* the except of process_order_created prints.
process_order_created_publish_raises(h) ==
    /\ inv[h].phase = "publish"
    /\ inv' = [inv EXCEPT ![h].phase = "ack", ![h].error = "AMQPConnectionError"]
    /\ UNCHANGED <<stock, reservations, queues, published, notInventory, delivered>>

\* on_message, routing key order.cancelled: process_order_cancelled starts on `m`.
on_message_order_cancelled(h, m) ==
    /\ inv[h].phase = "idle"
    /\ m.routing_key = "order.cancelled"
    /\ Raised(m, {"order_id"}) = ""
    /\ inv' = [inv EXCEPT ![h] = InvStart("select", m)]
    /\ UNCHANGED <<stock, reservations, published, notInventory>>

\* The sequences that list every element of the set S once.
Orderings(S) ==
    {f \in [1..Cardinality(S) -> S] : \A a \in S : \E k \in DOMAIN f : f[k] = a}

\* 1. Find reservations for the cancelled order; none: return.
process_order_cancelled_select(h) ==
    /\ inv[h].phase = "select"
    /\ LET found == {r \in reservations : r.order_id = inv[h].order_id}
       IN  IF found = {}
           THEN inv' = [inv EXCEPT ![h].phase = "ack"]
           ELSE \E rows \in Orderings(found) :
                    inv' = [inv EXCEPT ![h].phase = "release", ![h].reservations = rows]
    /\ UNCHANGED <<stock, reservations, queues, published, notInventory, delivered>>

\* Bug variant: one unit is given back per reservation row.
CreditOne(have, quantity) == have + 1

\* Bug variant: the stock is written back as read.
CreditNothing(have, quantity) == have

\* inventory.stock += res.quantity
Credit(have, quantity) == have + quantity

\* 2. Rollback: increment stock, one reservation per step.
process_order_cancelled_release(h) ==
    /\ inv[h].phase = "release"
    /\ LET s == inv[h]
           res == s.reservations[s.i]
           have == session_get(h, res.product_id)
       IN  inv' = [inv EXCEPT
                ![h].session = IF have = -1 THEN @
                               ELSE Loaded(s.session, res.product_id,
                                           Credit(have, res.quantity)),
                ![h].i = @ + 1,
                ![h].phase = IF s.i = Len(s.reservations) THEN "delete" ELSE "release"]
    /\ UNCHANGED <<stock, reservations, queues, published, notInventory, delivered>>

\* Bug variant: the rows are kept.
DeletedNothing(o) == reservations

\* Bug variant: the rows of every order are deleted.
DeletedAll(o) == {}

\* The reservation table after `delete ... where order_id = o`.
Deleted(o) == {r \in reservations : r.order_id # o}

\* Bug variant: the release is announced with an event.
process_order_cancelled_commit_and_publish(h) ==
    /\ inv[h].phase = "delete"
    /\ stock' = Flushed(inv[h].session)
    /\ reservations' = Deleted(inv[h].order_id)
    /\ LET e == InventoryUnavailable(inv[h].order_id)
       IN  /\ publish_event(e)
           /\ inv' = [inv EXCEPT ![h].phase = "ack", ![h].commits = @ + 1,
                                 ![h].emitted = Append(@, e)]
    /\ UNCHANGED <<notInventory, delivered>>

\* Delete all reservations for this order, session.commit().
process_order_cancelled_commit(h) ==
    /\ inv[h].phase = "delete"
    /\ stock' = Flushed(inv[h].session)
    /\ reservations' = Deleted(inv[h].order_id)
    /\ inv' = [inv EXCEPT ![h].phase = "ack", ![h].commits = @ + 1]
    /\ UNCHANGED <<queues, published, notInventory, delivered>>

\* An invocation that raised at its head, or that took no handler: it read
\* and wrote nothing, message.process() is about to exit.
InvDropped(m, error) ==
    [InvIdle EXCEPT !.phase = "ack", !.message = m, !.key = m.routing_key, !.error = error,
                    !.pre_stock = stock, !.pre_reservations = reservations]

\* process_order_created starts on `m` and json.loads or event_data[...]
\* raises: the except prints.
process_order_created_raises(h, m) ==
    /\ inv[h].phase = "idle"
    /\ m.routing_key = "order.created"
    /\ Raised(m, {"order_id", "items"}) # ""
    /\ inv' = [inv EXCEPT ![h] = InvDropped(m, Raised(m, {"order_id", "items"}))]
    /\ UNCHANGED <<stock, reservations, published, notInventory>>

\* The same in process_order_cancelled.
process_order_cancelled_raises(h, m) ==
    /\ inv[h].phase = "idle"
    /\ m.routing_key = "order.cancelled"
    /\ Raised(m, {"order_id"}) # ""
    /\ inv' = [inv EXCEPT ![h] = InvDropped(m, Raised(m, {"order_id"}))]
    /\ UNCHANGED <<stock, reservations, published, notInventory>>

InventoryKeys == {"order.created", "order.cancelled"}

\* Bug variant: any other routing key is taken for a cancellation.
inventory_on_message_else_cancels(h, m) ==
    /\ inv[h].phase = "idle"
    /\ m.routing_key \notin InventoryKeys
    /\ Raised(m, {"order_id", "items"}) = ""
    /\ inv' = [inv EXCEPT ![h] = InvStart("select", m)]
    /\ UNCHANGED <<stock, reservations, published, notInventory>>

\* on_message, any other routing key: "Ignored event", inside
\* message.process().
inventory_on_message_else(h, m) ==
    /\ inv[h].phase = "idle"
    /\ m.routing_key \notin InventoryKeys
    /\ inv' = [inv EXCEPT ![h] = InvDropped(m, "")]
    /\ UNCHANGED <<stock, reservations, published, notInventory>>

\* message.process() exits, the task ends.
inventory_ack(h) ==
    /\ inv[h].phase = "ack"
    /\ process_exit(inv[h].error)
    /\ inv' = [inv EXCEPT ![h] = InvIdle]
    /\ UNCHANGED <<orders, stock, stock0, reservations, payments, queues, published,
                   delivered, redelivered, pay, ord>>

----------------------------------------------------------------------------
(* Payment consumer *)

PayIdle ==
    [phase |-> "idle", message |-> <<>>, order_id |-> "", amount |-> 0, attempts |-> 0,
     success |-> FALSE, pre_payments |-> {}, commits |-> 0, emitted |-> <<>>,
     error |-> ""]

\* A row of the payments table.
Payment(o, amount, status) == [order_id |-> o, amount |-> amount, status |-> status]

\* Bug variant: only a PROCESSED row counts.
existing_processed_payment(o) == \E p \in payments : p.order_id = o /\ p.status = "PROCESSED"

\* session.get(Payment, order_id) finds a row.
existing_payment(o) == \E p \in payments : p.order_id = o

\* Bug variant: only a FAILED row refuses an insert.
PaymentKeyConflictOnFailed(o) ==
    \E p \in payments : p.order_id = o /\ p.status = "FAILED"

\* Bug variant: the key is (order_id, status).
PaymentKeyConflictOnProcessed(o) ==
    \E p \in payments : p.order_id = o /\ p.status = "PROCESSED"

\* Bug variant: no primary key on order_id.
PaymentKeyNeverConflicts(o) == FALSE

\* The primary key order_id refuses the insert of a row for order o.
PaymentKeyConflict(o) == \E p \in payments : p.order_id = o

\* Bug variant: the amount charged is the stored total of the order.
AmountOfOrder(order_id) ==
    IF order_id \in DOMAIN orders THEN orders[order_id].total_amount ELSE PlaceholderAmount

\* amount = 100.0 # Placeholder, should come from order details
amount_of(order_id) == PlaceholderAmount

\* process_inventory_reserved starts on `m`, whatever its routing key (the
\* queue has no dispatcher).
on_message_inventory_reserved(h, m) ==
    /\ pay[h].phase = "idle"
    /\ Raised(m, {"order_id"}) = ""
    /\ pay' = [pay EXCEPT ![h] = [PayIdle EXCEPT !.phase = "check", !.message = m,
                                                 !.order_id = m.order_id,
                                                 !.amount = amount_of(m.order_id),
                                                 !.pre_payments = payments]]
    /\ UNCHANGED <<payments, published, notPayment>>

\* Check for idempotency: an existing payment ends the invocation.
process_inventory_reserved_check(h) ==
    /\ pay[h].phase = "check"
    /\ pay' = [pay EXCEPT ![h].phase =
                   IF existing_payment(pay[h].order_id) THEN "ack" ELSE "charge"]
    /\ UNCHANGED <<payments, queues, published, delivered, notPayment>>

\* Bug variant: failure is declared after two attempts.
StopAfterTwoAttempts(attempts) == attempts >= 2

\* Bug variant: one attempt too many.
StopAfterOneMoreAttempt(attempts) == attempts > MaxAttempts

\* stop_after_attempt(3): no attempt follows the one numbered `attempts`.
StopAfterAttempt(attempts) == attempts >= MaxAttempts

\* One attempt of simulate_payment_processing that returns True.
simulate_payment_processing_success(h) ==
    /\ pay[h].phase = "charge"
    /\ pay' = [pay EXCEPT ![h].attempts = @ + 1, ![h].success = TRUE,
                          ![h].phase = "commit_processed"]
    /\ UNCHANGED <<payments, queues, published, delivered, notPayment>>

\* One attempt of simulate_payment_processing that raises: retried, or
\* RetryError once the attempts are used up.
simulate_payment_processing_failure(h) ==
    /\ pay[h].phase = "charge"
    /\ pay' = [pay EXCEPT ![h].attempts = @ + 1,
                          ![h].phase = IF StopAfterAttempt(pay[h].attempts + 1)
                                       THEN "commit_failed" ELSE "charge"]
    /\ UNCHANGED <<payments, queues, published, delivered, notPayment>>

\* Record payment success; an IntegrityError is caught by `except Exception`.
process_inventory_reserved_commit_processed(h) ==
    /\ pay[h].phase = "commit_processed"
    /\ IF PaymentKeyConflict(pay[h].order_id)
       THEN /\ pay' = [pay EXCEPT ![h].phase = "commit_failed"]
            /\ UNCHANGED payments
       ELSE /\ payments' = payments \cup {Payment(pay[h].order_id, pay[h].amount, "PROCESSED")}
            /\ pay' = [pay EXCEPT ![h].phase = "publish_processed", ![h].commits = @ + 1]
    /\ UNCHANGED <<queues, published, delivered, notPayment>>

\* Publish PaymentProcessed event.
process_inventory_reserved_publish_processed(h) ==
    /\ pay[h].phase = "publish_processed"
    /\ LET e == PaymentProcessed(pay[h].order_id, pay[h].amount)
       IN  /\ publish_event(e)
           /\ pay' = [pay EXCEPT ![h].phase = "ack", ![h].emitted = Append(@, e)]
    /\ UNCHANGED <<payments, delivered, notPayment>>

\* Bug variant: the FAILED row is merged over the row the order has.
process_inventory_reserved_commit_failed_merge(h) ==
    /\ pay[h].phase = "commit_failed"
    /\ payments' = {p \in payments : p.order_id # pay[h].order_id}
                      \cup {Payment(pay[h].order_id, pay[h].amount, "FAILED")}
    /\ pay' = [pay EXCEPT ![h].phase = "publish_failed", ![h].commits = @ + 1]
    /\ UNCHANGED <<queues, published, delivered, notPayment>>

\* Record payment failure; an IntegrityError here reaches the outer except.
process_inventory_reserved_commit_failed(h) ==
    /\ pay[h].phase = "commit_failed"
    /\ IF PaymentKeyConflict(pay[h].order_id)
       THEN /\ pay' = [pay EXCEPT ![h].phase = "ack", ![h].error = "IntegrityError"]
            /\ UNCHANGED payments
       ELSE /\ payments' = payments \cup {Payment(pay[h].order_id, pay[h].amount, "FAILED")}
            /\ pay' = [pay EXCEPT ![h].phase = "publish_failed", ![h].commits = @ + 1]
    /\ UNCHANGED <<queues, published, delivered, notPayment>>

\* Publish PaymentFailed event.
process_inventory_reserved_publish_failed(h) ==
    /\ pay[h].phase = "publish_failed"
    /\ LET e == PaymentFailed(pay[h].order_id)
       IN  /\ publish_event(e)
           /\ pay' = [pay EXCEPT ![h].phase = "ack", ![h].emitted = Append(@, e)]
    /\ UNCHANGED <<payments, delivered, notPayment>>

\* process_inventory_reserved starts on `m` and json.loads or
\* event_data["order_id"] raises: the outer except prints.
process_inventory_reserved_raises(h, m) ==
    /\ pay[h].phase = "idle"
    /\ Raised(m, {"order_id"}) # ""
    /\ pay' = [pay EXCEPT ![h] = [PayIdle EXCEPT !.phase = "ack", !.message = m,
                                                 !.error = Raised(m, {"order_id"}),
                                                 !.pre_payments = payments]]
    /\ UNCHANGED <<payments, published, notPayment>>

\* message.process() exits, the task ends.
payment_ack(h) ==
    /\ pay[h].phase = "ack"
    /\ process_exit(pay[h].error)
    /\ pay' = [pay EXCEPT ![h] = PayIdle]
    /\ UNCHANGED <<orders, stock, stock0, reservations, payments, queues, published,
                   delivered, redelivered, inv, ord>>

\* The steps of one invocation after it has taken its message.
PaymentWork(h) ==
    \/ process_inventory_reserved_check(h)
    \/ simulate_payment_processing_success(h)
    \/ simulate_payment_processing_failure(h)
    \/ process_inventory_reserved_commit_processed(h)
    \/ process_inventory_reserved_publish_processed(h)
    \/ process_inventory_reserved_commit_failed(h)
    \/ process_inventory_reserved_publish_failed(h)
    \/ payment_ack(h)

\* The store or the broker is out of reach: session.commit() or publish_event
\* (aio_pika.connect_robust) raises.  Inside the inner try the exception is
\* caught by `except Exception` (the failure branch), inside the failure
\* branch by the outer except.
process_inventory_reserved_commit_processed_raises(h) ==
    /\ pay[h].phase = "commit_processed"
    /\ pay' = [pay EXCEPT ![h].phase = "commit_failed"]
    /\ UNCHANGED <<payments, queues, published, delivered, notPayment>>

process_inventory_reserved_publish_processed_raises(h) ==
    /\ pay[h].phase = "publish_processed"
    /\ pay' = [pay EXCEPT ![h].phase = "commit_failed"]
    /\ UNCHANGED <<payments, queues, published, delivered, notPayment>>

process_inventory_reserved_commit_failed_raises(h) ==
    /\ pay[h].phase = "commit_failed"
    /\ pay' = [pay EXCEPT ![h].phase = "ack", ![h].error = "OperationalError"]
    /\ UNCHANGED <<payments, queues, published, delivered, notPayment>>

process_inventory_reserved_publish_failed_raises(h) ==
    /\ pay[h].phase = "publish_failed"
    /\ pay' = [pay EXCEPT ![h].phase = "ack", ![h].error = "AMQPConnectionError"]
    /\ UNCHANGED <<payments, queues, published, delivered, notPayment>>

----------------------------------------------------------------------------
(* Order consumer *)

OrdIdle ==
    [phase |-> "idle", message |-> <<>>, key |-> "", order_id |-> "", order |-> <<>>,
     pre_status |-> "", commits |-> 0, emitted |-> <<>>, error |-> ""]

OrderKeys == {"inventory.unavailable", "payment.processed", "payment.failed"}

OrderConfirmed(o, total_amount) ==
    Event("OrderConfirmed", "order.confirmed", o, NoItems, "", total_amount)

\* Bug variant: a failed payment leaves the order in PAYMENT_FAILED.
NewStatusPaymentFailed(key) ==
    CASE key = "payment.processed" -> "COMPLETED"
      [] key = "payment.failed" -> "PAYMENT_FAILED"
      [] key = "inventory.unavailable" -> "CANCELLED"

\* The status each handler passes to update_order_status.
NewStatus(key) ==
    CASE key = "payment.processed" -> "COMPLETED"
      [] key = "payment.failed" -> "CANCELLED"
      [] key = "inventory.unavailable" -> "CANCELLED"

\* The reason each cancelling handler puts in OrderCancelled.
Reason(key) ==
    CASE key = "payment.failed" -> "Payment Failed"
      [] key = "inventory.unavailable" -> "Inventory Unavailable"

\* on_message: the handler of the routing key starts on `m`; pre_status
\* records the status of the order when the message was taken.
on_message_order(h, m) ==
    /\ ord[h].phase = "idle"
    /\ m.routing_key \in OrderKeys
    /\ Raised(m, {"order_id"}) = ""
    /\ ord' = [ord EXCEPT ![h] =
                   [OrdIdle EXCEPT !.phase = "select", !.message = m, !.key = m.routing_key,
                                   !.order_id = m.order_id,
                                   !.pre_status = IF m.order_id \in DOMAIN orders
                                                  THEN orders[m.order_id].status ELSE ""]]
    /\ UNCHANGED <<orders, published, notOrder>>

\* Bug variant: an order that is not found is created with the new status.
update_order_status_select_or_create(h) ==
    /\ ord[h].phase = "select"
    /\ LET o == ord[h].order_id
           row == [status |-> NewStatus(ord[h].key), items |-> NoItems, total_amount |-> 0]
       IN  IF o \in DOMAIN orders
           THEN /\ ord' = [ord EXCEPT ![h].phase = "commit", ![h].order = orders[o]]
                /\ UNCHANGED orders
           ELSE /\ orders' = [x \in DOMAIN orders \cup {o} |->
                                 IF x = o THEN row ELSE orders[x]]
                /\ ord' = [ord EXCEPT ![h].phase = "publish", ![h].order = row,
                                      ![h].commits = @ + 1]
    /\ UNCHANGED <<queues, published, delivered, notOrder>>

\* update_order_status: select the order; none: the handler publishes nothing.
update_order_status_select(h) ==
    /\ ord[h].phase = "select"
    /\ IF ord[h].order_id \in DOMAIN orders
       THEN ord' = [ord EXCEPT ![h].phase = "commit", ![h].order = orders[ord[h].order_id]]
       ELSE ord' = [ord EXCEPT ![h].phase = "ack"]
    /\ UNCHANGED <<orders, queues, published, delivered, notOrder>>

\* Bug variant: a status written again falls back to PENDING.
UpdatedUnlessSame(row, new_status) ==
    [row EXCEPT !.status = IF @ = new_status THEN "PENDING" ELSE new_status]

\* order.status = new_status
Updated(row, new_status) == [row EXCEPT !.status = new_status]

\* Bug variant: the Order handler that cancels releases the reservation rows
\* itself.
update_order_status_commit_and_release(h) ==
    /\ ord[h].phase = "commit"
    /\ LET o == ord[h].order_id
       IN  /\ orders' = [orders EXCEPT ![o] = Updated(@, NewStatus(ord[h].key))]
           /\ reservations' = IF NewStatus(ord[h].key) = "CANCELLED"
                               THEN {r \in reservations : r.order_id # o}
                               ELSE reservations
           /\ ord' = [ord EXCEPT ![h].phase = "publish", ![h].order = orders'[o],
                                 ![h].commits = @ + 1]
    /\ UNCHANGED <<queues, published, delivered, stock, stock0, payments, redelivered,
                   acked, rejected, inv, pay>>

\* update_order_status: write the status whatever it was, commit, refresh.
update_order_status_commit(h) ==
    /\ ord[h].phase = "commit"
    /\ LET o == ord[h].order_id
       IN  /\ orders' = [orders EXCEPT ![o] = Updated(@, NewStatus(ord[h].key))]
           /\ ord' = [ord EXCEPT ![h].phase = "publish", ![h].order = orders'[o],
                                 ![h].commits = @ + 1]
    /\ UNCHANGED <<queues, published, delivered, notOrder>>

\* Bug variant: the amount the payment event carries.
ConfirmedTotalFromEvent(order, event_data) == event_data.amount

\* "total_amount": order.total_amount
ConfirmedTotal(order, event_data) == order.total_amount

\* Publish OrderConfirmed (payment.processed) or OrderCancelled.
process_outcome_publish(h) ==
    /\ ord[h].phase = "publish"
    /\ LET s == ord[h]
           e == IF s.key = "payment.processed"
                THEN OrderConfirmed(s.order_id, ConfirmedTotal(s.order, s.message))
                ELSE OrderCancelled(s.order_id, Reason(s.key))
       IN  /\ publish_event(e)
           /\ ord' = [ord EXCEPT ![h].phase = "ack", ![h].emitted = Append(@, e)]
    /\ UNCHANGED <<orders, delivered, notOrder>>

\* messaging.publish_event has no channel, or exchange.publish raises: it
\* prints and returns, the handler goes on as after a publish.
process_outcome_publish_fails(h) ==
    /\ ord[h].phase = "publish"
    /\ ord' = [ord EXCEPT ![h].phase = "ack"]
    /\ UNCHANGED <<orders, queues, published, delivered, notOrder>>

\* An invocation that raised at its head, or that took no handler.
OrdDropped(m, error) ==
    [OrdIdle EXCEPT !.phase = "ack", !.message = m, !.key = m.routing_key, !.error = error]

\* A handler starts on `m` and json.loads or event_data["order_id"] raises:
\* the except prints.
process_outcome_raises(h, m) ==
    /\ ord[h].phase = "idle"
    /\ m.routing_key \in OrderKeys
    /\ Raised(m, {"order_id"}) # ""
    /\ ord' = [ord EXCEPT ![h] = OrdDropped(m, Raised(m, {"order_id"}))]
    /\ UNCHANGED <<orders, published, notOrder>>

\* on_message, any other routing key: "Ignored event", inside
\* message.process().
order_on_message_else(h, m) ==
    /\ ord[h].phase = "idle"
    /\ m.routing_key \notin OrderKeys
    /\ ord' = [ord EXCEPT ![h] = OrdDropped(m, "")]
    /\ UNCHANGED <<orders, published, notOrder>>

\* message.process() exits, the task ends.
order_ack(h) ==
    /\ ord[h].phase = "ack"
    /\ process_exit(ord[h].error)
    /\ ord' = [ord EXCEPT ![h] = OrdIdle]
    /\ UNCHANGED <<orders, stock, stock0, reservations, payments, queues, published,
                   delivered, redelivered, inv, pay>>

OrderWork(h) ==
    \/ update_order_status_select(h)
    \/ update_order_status_commit(h)
    \/ process_outcome_publish(h)
    \/ order_ack(h)

----------------------------------------------------------------------------
(* Delivery.  A consumer takes the head of its queue; where the publishing   *)
(* service is outside the specification, the broker hands over a message of  *)
(* an existing order directly, any number of times and in any order.         *)

consume(q, m) ==
    /\ queues[q] # <<>>
    /\ m = Head(queues[q])
    /\ queues' = [queues EXCEPT ![q] = Tail(@)]
    /\ UNCHANGED delivered

deliver(m, bound) ==
    /\ Len(delivered) < bound
    /\ delivered' = Append(delivered, m)
    /\ UNCHANGED queues

inventory_receive_created(h, o) ==
    LET m == OrderCreated(o, orders[o].items)
    IN  deliver(m, MaxDeliveries) /\ on_message_order_created(h, m)

inventory_receive_cancelled(h, o) ==
    LET m == OrderCancelled(o, "Payment Failed")
    IN  deliver(m, MaxDeliveries) /\ on_message_order_cancelled(h, m)

----------------------------------------------------------------------------
(* Specifications *)

StockTables == UNION {[D -> 0..MaxStock] : D \in SUBSET Products}
\* Bug variant: a new order starts CONFIRMED.
OrderRowConfirmed(items) == [status |-> "CONFIRMED", items |-> items, total_amount |-> 10]

OrderRow(items) == [status |-> "PENDING", items |-> items, total_amount |-> 10]
EmptyQueues == [q \in QueueNames |-> <<>>]

\* Order o1 has any one or two line items, order o2 one line item of product-A.
SimpleLists == {<<a>> : a \in {b \in Item : b.product_id = "product-A"}}
OrderTables ==
    {[o \in Orders |-> OrderRow(IF o = "o1" THEN l1 ELSE l2)] :
        l1 \in ItemLists, l2 \in SimpleLists}

InitBroker ==
    /\ queues = EmptyQueues
    /\ published = <<>>
    /\ delivered = <<>>
    /\ redelivered = 0
    /\ acked = 0
    /\ rejected = 0

InventoryWork(h) ==
    \/ process_order_created_check(h)
    \/ process_order_created_commit(h)
    \/ process_order_created_publish(h)
    \/ process_order_cancelled_select(h)
    \/ process_order_cancelled_release(h)
    \/ process_order_cancelled_commit(h)
    \/ inventory_ack(h)

NextInventory ==
    \E h \in DOMAIN inv :
        \/ \E o \in DOMAIN orders : inventory_receive_created(h, o)
        \/ \E o \in DOMAIN orders : inventory_receive_cancelled(h, o)
        \/ InventoryWork(h)

\* Inventory alone, one message at a time.
InitInventory ==
    /\ InitBroker
    /\ orders \in OrderTables
    /\ stock \in StockTables
    /\ stock0 = stock
    /\ reservations = {}
    /\ payments = {}
    /\ inv = [h \in {1} |-> InvIdle]
    /\ pay = <<>>
    /\ ord = <<>>

SpecInventory == InitInventory /\ [][NextInventory]_vars

\* The rows a committed reservation of order o leaves.
ReservedRows(o) ==
    {Reservation(o, orders[o].items[k].product_id, orders[o].items[k].quantity) :
        k \in DOMAIN orders[o].items}

\* The reservation race: every order asks for one unit of product-A, whose
\* stock is 1; one handler invocation for each message.
RaceOrders == {"o1", "o2", "o3"}
OneUnit == <<[product_id |-> "product-A", quantity |-> 1]>>

InitRace ==
    /\ InitBroker
    /\ orders = [o \in RaceOrders |-> OrderRow(OneUnit)]
    /\ stock = [p \in Products |-> 1]
    /\ stock0 = stock
    /\ reservations = {}
    /\ payments = {}
    /\ inv = [h \in 1..Cardinality(RaceOrders) |-> InvIdle]
    /\ pay = <<>>
    /\ ord = <<>>

race_receive_created(h, o) ==
    LET m == OrderCreated(o, orders[o].items)
    IN  /\ m \notin Range(delivered)
        /\ deliver(m, Cardinality(RaceOrders))
        /\ on_message_order_created(h, m)

NextRace ==
    \E h \in DOMAIN inv :
        \/ \E o \in DOMAIN orders : race_receive_created(h, o)
        \/ process_order_created_check(h)
        \/ process_order_created_commit(h)
        \/ process_order_created_publish(h)
        \/ inventory_ack(h)

SpecRace == InitRace /\ [][NextRace]_vars

\* Inventory alone, two handler invocations at a time, one message for each.
\* Order o1 may hold its reservation already (one row per product).
InitOverlap ==
    /\ InitBroker
    /\ orders \in OrderTables
    /\ stock \in StockTables
    /\ stock0 = stock
    /\ \/ reservations = {}
       \/ /\ reservations = ReservedRows("o1")
          /\ \A r \in reservations : r.product_id \in DOMAIN stock
          /\ \A r1, r2 \in reservations : Key(r1) = Key(r2) => r1 = r2
    /\ payments = {}
    /\ inv = [h \in {1, 2} |-> InvIdle]
    /\ pay = <<>>
    /\ ord = <<>>

overlap_receive_created(h, o) ==
    LET m == OrderCreated(o, orders[o].items)
    IN  deliver(m, Cardinality(DOMAIN inv)) /\ on_message_order_created(h, m)

overlap_receive_cancelled(h, o) ==
    LET m == OrderCancelled(o, "Payment Failed")
    IN  deliver(m, Cardinality(DOMAIN inv)) /\ on_message_order_cancelled(h, m)

NextOverlap ==
    \E h \in DOMAIN inv :
        \/ \E o \in DOMAIN orders : overlap_receive_created(h, o)
        \/ \E o \in DOMAIN orders : overlap_receive_cancelled(h, o)
        \/ InventoryWork(h)

SpecOverlap == InitOverlap /\ [][NextOverlap]_vars

\* Payment alone: every order holds its reservation, inventory.reserved of an
\* existing order arrives any number of times.
InitPaymentStores ==
    /\ InitBroker
    /\ orders = [o \in Orders |-> OrderRow(OneUnit)]
    /\ stock = [p \in Products |-> MaxStock]
    /\ stock0 = stock
    /\ reservations = UNION {ReservedRows(o) : o \in Orders}
    /\ payments = {}
    /\ inv = <<>>
    /\ ord = <<>>

payment_receive(h, o) ==
    LET m == InventoryReserved(o)
    IN  deliver(m, MaxPayDeliveries) /\ on_message_inventory_reserved(h, m)

NextPayment ==
    \E h \in DOMAIN pay :
        \/ \E o \in DOMAIN orders : payment_receive(h, o)
        \/ process_inventory_reserved_check(h)
        \/ simulate_payment_processing_success(h)
        \/ simulate_payment_processing_failure(h)
        \/ process_inventory_reserved_commit_processed(h)
        \/ process_inventory_reserved_publish_processed(h)
        \/ process_inventory_reserved_commit_failed(h)
        \/ process_inventory_reserved_publish_failed(h)
        \/ payment_ack(h)

\* One message at a time.
InitPayment == InitPaymentStores /\ pay = [h \in {1} |-> PayIdle]
SpecPayment == InitPayment /\ [][NextPayment]_vars

\* The same, every invocation running on to its end.
SpecPaymentLive ==
    InitPayment /\ [][NextPayment]_vars /\ WF_vars(\E h \in DOMAIN pay : PaymentWork(h))

\* Two handler invocations at a time.
InitPaymentOverlap == InitPaymentStores /\ pay = [h \in {1, 2} |-> PayIdle]
SpecPaymentOverlap == InitPaymentOverlap /\ [][NextPayment]_vars

\* Payment alone, one message at a time, the store and the broker failing
\* at any commit or publish.
NextPaymentFaults ==
    \E h \in DOMAIN pay :
        \/ \E o \in DOMAIN orders : payment_receive(h, o)
        \/ PaymentWork(h)
        \/ process_inventory_reserved_commit_processed_raises(h)
        \/ process_inventory_reserved_publish_processed_raises(h)
        \/ process_inventory_reserved_commit_failed_raises(h)
        \/ process_inventory_reserved_publish_failed_raises(h)

SpecPaymentFaults == InitPayment /\ [][NextPaymentFaults]_vars

\* Two handler invocations at a time, the store and the broker failing at any
\* commit or publish.
SpecPaymentOverlapFaults == InitPaymentOverlap /\ [][NextPaymentFaults]_vars

\* Order alone, one message at a time: the outcome events of an existing
\* order arrive any number of times and in any order.
OutcomeEvents(o) ==
    {InventoryUnavailable(o), PaymentProcessed(o, PlaceholderAmount), PaymentFailed(o)}

InitOrder ==
    /\ InitBroker
    /\ orders = [o \in Orders |-> OrderRow(OneUnit)]
    /\ stock = [p \in Products |-> MaxStock]
    /\ stock0 = stock
    /\ reservations = {}
    /\ payments = {}
    /\ inv = <<>>
    /\ pay = <<>>
    /\ ord = [h \in {1} |-> OrdIdle]

order_receive(h, m) == deliver(m, MaxOrderDeliveries) /\ on_message_order(h, m)

NextOrder ==
    \E h \in DOMAIN ord :
        \/ \E o \in DOMAIN orders : \E m \in OutcomeEvents(o) : order_receive(h, m)
        \/ OrderWork(h)

SpecOrder == InitOrder /\ [][NextOrder]_vars

\* The three consumers, one message at a time over all of them: events of
\* existing orders, deliveries whose body does not parse or lacks a key, and
\* deliveries no handler takes, any number of times and in any order; the
\* payment store and the broker may fail.  Every invocation runs on.
MalformedOf(e, fields) == {Raw(e.routing_key, NotJson)} \cup {Without(e, f) : f \in fields}

InventoryDeliveries ==
    UNION {{OrderCreated(o, orders[o].items), OrderCancelled(o, "Payment Failed"),
            OrderConfirmed(o, orders[o].total_amount)}
           \cup MalformedOf(OrderCreated(o, orders[o].items), {"order_id", "items"})
           \cup MalformedOf(OrderCancelled(o, "Payment Failed"), {"order_id"})
           \cup MalformedOf(OrderConfirmed(o, orders[o].total_amount), {"order_id"}) :
           o \in DOMAIN orders}

PaymentDeliveries ==
    UNION {{InventoryReserved(o)} \cup MalformedOf(InventoryReserved(o), {"order_id"}) :
           o \in DOMAIN orders}

\* An order id no order record has.
UnknownOrder == "o9"

OrderDeliveries ==
    OutcomeEvents(UnknownOrder) \cup
    UNION {OutcomeEvents(o) \cup {InventoryReserved(o)}
           \cup MalformedOf(PaymentProcessed(o, PlaceholderAmount), {"order_id"})
           \cup MalformedOf(InventoryUnavailable(o), {"order_id"})
           \cup MalformedOf(InventoryReserved(o), {"order_id"}) :
           o \in DOMAIN orders}

AllIdle ==
    /\ \A h \in DOMAIN inv : inv[h].phase = "idle"
    /\ \A h \in DOMAIN pay : pay[h].phase = "idle"
    /\ \A h \in DOMAIN ord : ord[h].phase = "idle"

inventory_receive(h, m) ==
    /\ AllIdle
    /\ deliver(m, MaxHandlerDeliveries)
    /\ \/ on_message_order_created(h, m)
       \/ process_order_created_raises(h, m)
       \/ on_message_order_cancelled(h, m)
       \/ process_order_cancelled_raises(h, m)
       \/ inventory_on_message_else(h, m)

payment_receive_any(h, m) ==
    /\ AllIdle
    /\ deliver(m, MaxHandlerDeliveries)
    /\ \/ on_message_inventory_reserved(h, m)
       \/ process_inventory_reserved_raises(h, m)

order_receive_any(h, m) ==
    /\ AllIdle
    /\ deliver(m, MaxHandlerDeliveries)
    /\ \/ on_message_order(h, m)
       \/ process_outcome_raises(h, m)
       \/ order_on_message_else(h, m)

InitHandlers ==
    /\ InitBroker
    /\ orders = [o \in Orders |-> OrderRow(OneUnit)]
    /\ stock = [p \in Products |-> MaxStock]
    /\ stock0 = stock
    /\ reservations = {}
    /\ payments = {}
    /\ inv = [h \in {1} |-> InvIdle]
    /\ pay = [h \in {1} |-> PayIdle]
    /\ ord = [h \in {1} |-> OrdIdle]

HandlersWork ==
    \/ \E h \in DOMAIN inv : InventoryWork(h)
    \/ \E h \in DOMAIN pay : PaymentWork(h)
    \/ \E h \in DOMAIN ord : OrderWork(h)

NextHandlers ==
    \/ \E h \in DOMAIN inv : \E m \in InventoryDeliveries : inventory_receive(h, m)
    \/ \E h \in DOMAIN pay : \E m \in PaymentDeliveries : payment_receive_any(h, m)
    \/ \E h \in DOMAIN ord : \E m \in OrderDeliveries : order_receive_any(h, m)
    \/ HandlersWork
    \/ \E h \in DOMAIN pay :
           \/ process_inventory_reserved_commit_processed_raises(h)
           \/ process_inventory_reserved_publish_processed_raises(h)
           \/ process_inventory_reserved_commit_failed_raises(h)
           \/ process_inventory_reserved_publish_failed_raises(h)

SpecHandlers == InitHandlers /\ [][NextHandlers]_vars /\ WF_vars(HandlersWork)

----------------------------------------------------------------------------
(* The saga: the three consumers on their queues, one message at a time     *)
(* each, and create_order on the Order side.                                *)

SagaOrders == {"o1"}

\* POST /api/orders: the order is stored PENDING, OrderCreated is published.
create_order(o, items) ==
    /\ o \notin DOMAIN orders
    /\ orders' = [x \in DOMAIN orders \cup {o} |->
                      IF x = o THEN OrderRow(items) ELSE orders[x]]
    /\ publish_event(OrderCreated(o, items))
    /\ UNCHANGED <<stock, stock0, reservations, payments, delivered, redelivered,
                   acked, rejected, inv, pay, ord>>

inventory_consume(h) ==
    /\ queues["inventory_q"] # <<>>
    /\ LET m == Head(queues["inventory_q"])
       IN  /\ consume("inventory_q", m)
           /\ \/ on_message_order_created(h, m)
              \/ on_message_order_cancelled(h, m)

payment_consume(h) ==
    /\ queues["payment_q"] # <<>>
    /\ LET m == Head(queues["payment_q"])
       IN  consume("payment_q", m) /\ on_message_inventory_reserved(h, m)

order_consume(h) ==
    /\ queues["order_q"] # <<>>
    /\ LET m == Head(queues["order_q"])
       IN  consume("order_q", m) /\ on_message_order(h, m)

InitSaga ==
    /\ InitBroker
    /\ orders = <<>>
    /\ stock \in StockTables
    /\ stock0 = stock
    /\ reservations = {}
    /\ payments = {}
    /\ inv = [h \in {1} |-> InvIdle]
    /\ pay = [h \in {1} |-> PayIdle]
    /\ ord = [h \in {1} |-> OrdIdle]

NextSaga ==
    \/ \E o \in SagaOrders : \E items \in ItemLists : create_order(o, items)
    \/ \E h \in DOMAIN inv : inventory_consume(h) \/ InventoryWork(h)
    \/ \E h \in DOMAIN pay : payment_consume(h) \/ PaymentWork(h)
    \/ \E h \in DOMAIN ord : order_consume(h) \/ OrderWork(h)

\* Every published event is delivered, once, and every handler runs on.
SpecSaga == InitSaga /\ [][NextSaga]_vars /\ WF_vars(NextSaga)

\* POST /api/orders while messaging.publish_event cannot publish: the order
\* is stored, the error is printed, the request returns 201.
create_order_publish_fails(o, items) ==
    /\ o \notin DOMAIN orders
    /\ orders' = [x \in DOMAIN orders \cup {o} |->
                      IF x = o THEN OrderRow(items) ELSE orders[x]]
    /\ UNCHANGED <<stock, stock0, reservations, payments, queues, published, delivered,
                   redelivered, acked, rejected, inv, pay, ord>>

\* The saga with a broker that may be out of reach at any publish.
NextSagaPublishFaults ==
    \/ NextSaga
    \/ \E o \in SagaOrders : \E items \in ItemLists : create_order_publish_fails(o, items)
    \/ \E h \in DOMAIN inv : process_order_created_publish_raises(h)
    \/ \E h \in DOMAIN pay : process_inventory_reserved_publish_processed_raises(h)
    \/ \E h \in DOMAIN pay : process_inventory_reserved_publish_failed_raises(h)
    \/ \E h \in DOMAIN ord : process_outcome_publish_fails(h)

SpecSagaPublishFaults == InitSaga /\ [][NextSagaPublishFaults]_vars /\ WF_vars(NextSaga)

\* Orders that differ in their stored total only: both reserved, Payment
\* receives their InventoryReserved, Order consumes what Payment publishes.
Totals == {10, 25}
InitAmounts ==
    /\ InitBroker
    /\ orders \in [Orders -> {[OrderRow(OneUnit) EXCEPT !.total_amount = t] : t \in Totals}]
    /\ stock = [p \in Products |-> MaxStock]
    /\ stock0 = stock
    /\ reservations = UNION {ReservedRows(o) : o \in Orders}
    /\ payments = {}
    /\ inv = <<>>
    /\ pay = [h \in {1} |-> PayIdle]
    /\ ord = [h \in {1} |-> OrdIdle]

NextAmounts ==
    \/ \E h \in DOMAIN pay : \E o \in DOMAIN orders : payment_receive(h, o)
    \/ \E h \in DOMAIN pay : PaymentWork(h)
    \/ \E h \in DOMAIN ord : order_consume(h) \/ OrderWork(h)

SpecAmounts == InitAmounts /\ [][NextAmounts]_vars

\* A consumer stops before it acknowledged its message (the process or its
\* connection dies inside message.process()): what it committed and
\* published stays, the invocation is gone, the broker puts the message back
\* at the head of the queue.
Requeued(q, m) == [queues EXCEPT ![q] = <<m>> \o @]

inventory_redeliver(h) ==
    /\ inv[h].phase # "idle"
    /\ redelivered < MaxRedeliveries
    /\ redelivered' = redelivered + 1
    /\ queues' = Requeued("inventory_q", inv[h].message)
    /\ inv' = [inv EXCEPT ![h] = InvIdle]
    /\ UNCHANGED <<orders, stock, stock0, reservations, payments, published, delivered,
                   acked, rejected, pay, ord>>

payment_redeliver(h) ==
    /\ pay[h].phase # "idle"
    /\ redelivered < MaxRedeliveries
    /\ redelivered' = redelivered + 1
    /\ queues' = Requeued("payment_q", pay[h].message)
    /\ pay' = [pay EXCEPT ![h] = PayIdle]
    /\ UNCHANGED <<orders, stock, stock0, reservations, payments, published, delivered,
                   acked, rejected, inv, ord>>

order_redeliver(h) ==
    /\ ord[h].phase # "idle"
    /\ redelivered < MaxRedeliveries
    /\ redelivered' = redelivered + 1
    /\ queues' = Requeued("order_q", ord[h].message)
    /\ ord' = [ord EXCEPT ![h] = OrdIdle]
    /\ UNCHANGED <<orders, stock, stock0, reservations, payments, published, delivered,
                   acked, rejected, inv, pay>>

NextSagaRedelivery ==
    \/ NextSaga
    \/ \E h \in DOMAIN inv : inventory_redeliver(h)
    \/ \E h \in DOMAIN pay : payment_redeliver(h)
    \/ \E h \in DOMAIN ord : order_redeliver(h)

\* At-least-once delivery.
SpecSagaRedelivery == InitSaga /\ [][NextSagaRedelivery]_vars

----------------------------------------------------------------------------
(* Properties *)

IsEvent(e, type, o) == e.event_type = type /\ e.order_id = o
Published(type, o) == Cardinality({k \in DOMAIN published : IsEvent(published[k], type, o)})
PublishedOfType(type) ==
    Cardinality({k \in DOMAIN published : published[k].event_type = type})
RowsOf(table, o) == {r \in table : r.order_id = o}

\* A line item the inventory table `tbl` cannot serve.
Unavailable(tbl, item) ==
    item.product_id \notin DOMAIN tbl \/ item.quantity > tbl[item.product_id]

\* The total quantity the line items ask of product p.
RECURSIVE Asked(_, _)
Asked(items, p) ==
    IF items = <<>> THEN 0
    ELSE (IF Head(items).product_id = p THEN Head(items).quantity ELSE 0)
         + Asked(Tail(items), p)

\* C1: an OrderCreated with a line item that has no inventory row or asks for
\* more than the stock is rejected whole: while and after it is handled no
\* stock and no reservation row has changed, nothing was committed, and the
\* handling emits exactly one InventoryUnavailable and no InventoryReserved.
C1_RejectedOrderChangesNothing ==
    \A h \in DOMAIN inv :
        LET s == inv[h]
        IN  (s.key = "order.created"
             /\ \E k \in DOMAIN s.items : Unavailable(s.pre_stock, s.items[k]))
            => /\ stock = s.pre_stock
               /\ reservations = s.pre_reservations
               /\ s.commits = 0
               /\ Len(s.emitted) <= 1
               /\ \A k \in DOMAIN s.emitted :
                      IsEvent(s.emitted[k], "InventoryUnavailable", s.order_id)
               /\ s.phase = "ack" => Len(s.emitted) = 1

\* C1 witness: two line items of different products, the first in stock, the
\* second not, handled to the end.
C1_Witness ==
    \E h \in DOMAIN inv :
        LET s == inv[h]
        IN  /\ s.phase = "ack" /\ s.key = "order.created" /\ Len(s.items) = 2
            /\ s.items[1].product_id # s.items[2].product_id
            /\ ~Unavailable(s.pre_stock, s.items[1])
            /\ Unavailable(s.pre_stock, s.items[2])
            /\ Len(s.emitted) = 1

\* C2: an order whose every line item fits the seeded stock is reserved and
\* then cancelled: once the cancellation is handled the stock of every
\* product is the seeded stock again and the order holds no reservation row.
C2_CompensationRoundTrip ==
    \A h \in DOMAIN inv : \A o \in DOMAIN orders :
        LET s == inv[h]
        IN  (/\ s.phase = "ack" /\ s.key = "order.cancelled" /\ s.order_id = o
             /\ Len(delivered) = 2
             /\ IsEvent(delivered[1], "OrderCreated", o)
             /\ \A k \in DOMAIN orders[o].items : ~Unavailable(stock0, orders[o].items[k]))
            => stock = stock0 /\ RowsOf(reservations, o) = {}

\* C2 witness: the cancellation released a reservation of two products.
C2_Witness ==
    \E h \in DOMAIN inv :
        LET s == inv[h]
        IN  /\ s.phase = "ack" /\ s.key = "order.cancelled" /\ Len(delivered) = 2
            /\ IsEvent(delivered[1], "OrderCreated", s.order_id)
            /\ Cardinality(RowsOf(s.pre_reservations, s.order_id)) = 2
            /\ s.commits = 1
            /\ \A p \in DOMAIN stock : s.pre_stock[p] < stock0[p] /\ stock[p] = stock0[p]

\* C3: a cancellation that finds no reservation row of its order changes and
\* commits nothing; the same OrderCancelled handled again right after leaves
\* the stock as the first handling left it, and after any handling of
\* OrderCancelled the order holds no reservation row.
C3_RepeatedCancellationIsNoOp ==
    \A h \in DOMAIN inv :
        LET s == inv[h]
            n == Len(delivered)
        IN  s.key = "order.cancelled" =>
              /\ RowsOf(s.pre_reservations, s.order_id) = {}
                    => /\ stock = s.pre_stock
                       /\ reservations = s.pre_reservations
                       /\ s.commits = 0
                       /\ s.emitted = <<>>
              /\ (n >= 2 /\ delivered[n - 1] = delivered[n])
                    => /\ stock = s.pre_stock
                       /\ RowsOf(reservations, s.order_id) = {}
                       /\ s.commits = 0
              /\ s.phase = "ack" => RowsOf(reservations, s.order_id) = {}

\* C3 witness: the second of two cancellations that follow a reservation.
C3_Witness ==
    \E h \in DOMAIN inv :
        LET s == inv[h]
        IN  /\ s.phase = "ack" /\ s.key = "order.cancelled" /\ Len(delivered) = 3
            /\ IsEvent(delivered[1], "OrderCreated", s.order_id)
            /\ delivered[2] = delivered[3]
            /\ Published("InventoryReserved", s.order_id) = 1
            /\ stock = stock0

\* C6: the committed stock of every product is never negative.
C6_StockNeverNegative == \A p \in DOMAIN stock : stock[p] >= 0

\* C6 witness: two overlapping OrderCreated handlers both committed a
\* reservation of the same product and left it without stock.
C6_Witness ==
    \E h1, h2 \in DOMAIN inv : \E p \in DOMAIN stock :
           /\ h1 # h2 /\ stock[p] = 0
           /\ \A h \in {h1, h2} :
                  /\ inv[h].key = "order.created" /\ inv[h].commits = 1
                  /\ p \in DOMAIN inv[h].session

\* The other case of C6, reached as well: an order names one product twice,
\* its session holds stock 1 for it, and the commit was refused.
C6_DuplicateItemRefused ==
    \E h \in DOMAIN inv :
        LET s == inv[h]
        IN  /\ s.phase = "ack" /\ s.key = "order.created" /\ s.commits = 0
            /\ Len(s.reservations) = 2
            /\ s.reservations[1].product_id = s.reservations[2].product_id
            /\ s.session[s.reservations[1].product_id] = 1

\* C7: stock 1, every order asks for one unit and is handled once, the
\* handlers overlapping: when all are done exactly one InventoryReserved and
\* one InventoryUnavailable for each other order have been published.
C7_ExactlyOneReservationWins ==
    (/\ \A h \in DOMAIN inv : inv[h].phase = "idle"
     /\ Len(delivered) = Cardinality(RaceOrders))
    => /\ PublishedOfType("InventoryReserved") = 1
       /\ PublishedOfType("InventoryUnavailable") = Cardinality(RaceOrders) - 1

\* C8: an OrderCreated whose every line item fits the stock (here: also when
\* the line items of one product are taken together, so that the stock can
\* serve them all): when it has been handled there was one commit, every
\* product's stock is down by what the line items ask of it, one reservation
\* row per line item is stored, and the handling emitted exactly one
\* InventoryReserved, after the commit.
C8_ReservedInOneCommit ==
    \A h \in DOMAIN inv :
        LET s == inv[h]
        IN  (/\ s.phase = "ack" /\ s.key = "order.created"
             /\ \A k \in DOMAIN s.items :
                    /\ ~Unavailable(s.pre_stock, s.items[k])
                    /\ Asked(s.items, s.items[k].product_id)
                           <= s.pre_stock[s.items[k].product_id])
            => /\ s.commits = 1
               /\ \A p \in DOMAIN stock : stock[p] = s.pre_stock[p] - Asked(s.items, p)
               /\ reservations = s.pre_reservations \cup
                      {Reservation(s.order_id, s.items[k].product_id, s.items[k].quantity) :
                          k \in DOMAIN s.items}
               /\ Len(s.emitted) = 1
               /\ IsEvent(s.emitted[1], "InventoryReserved", s.order_id)

\* C4: an InventoryReserved for an order that already has a payment row, of
\* either status: no charge attempt, no commit, no event, and the rows of that
\* order stay as they were.
C4_ExistingPaymentShortCircuits ==
    \A h \in DOMAIN pay :
        LET s == pay[h]
        IN  (s.phase # "idle" /\ RowsOf(s.pre_payments, s.order_id) # {})
            => /\ s.phase \in {"check", "ack"}
               /\ s.attempts = 0
               /\ s.commits = 0
               /\ s.emitted = <<>>
               /\ RowsOf(payments, s.order_id) = RowsOf(s.pre_payments, s.order_id)

\* C4 witness: the existing row is a FAILED one and the handler has returned.
C4_Witness ==
    \E h \in DOMAIN pay :
        /\ pay[h].phase = "ack"
        /\ \E p \in pay[h].pre_payments :
               p.order_id = pay[h].order_id /\ p.status = "FAILED"

\* C5: at most one payment row per order id.
C5_OnePaymentPerOrder ==
    \A o \in DOMAIN orders : Cardinality(RowsOf(payments, o)) <= 1

\* C5 witness: two invocations for one order both passed the existence check
\* with no row present; one committed, the insert of the other was refused.
C5_Witness ==
    \E h1, h2 \in DOMAIN pay :
        /\ h1 # h2 /\ pay[h1].order_id = pay[h2].order_id
        /\ pay[h1].attempts > 0 /\ pay[h2].attempts > 0
        /\ pay[h1].commits = 1
        /\ pay[h2].phase = "ack" /\ pay[h2].commits = 0
        /\ Cardinality(RowsOf(payments, pay[h1].order_id)) = 1

\* C9: no payment row for the order and the charge succeeds within the
\* attempts allowed: when the message has been handled the order has exactly
\* one row, PROCESSED, exactly one PaymentProcessed with that row's amount was
\* published for it, and no PaymentFailed.
C9_SuccessfulCharge ==
    \A h \in DOMAIN pay :
        LET s == pay[h]
            o == s.order_id
        IN  (s.phase = "ack" /\ RowsOf(s.pre_payments, o) = {} /\ s.success)
            => /\ s.attempts <= MaxAttempts
               /\ Cardinality(RowsOf(payments, o)) = 1
               /\ \A r \in RowsOf(payments, o) :
                      /\ r.status = "PROCESSED"
                      /\ Len(s.emitted) = 1
                      /\ IsEvent(s.emitted[1], "PaymentProcessed", o)
                      /\ s.emitted[1].amount = r.amount
               /\ Published("PaymentProcessed", o) = 1
               /\ Published("PaymentFailed", o) = 0

\* C9 witness: the third attempt succeeded.
C9_Witness ==
    \E h \in DOMAIN pay :
        /\ pay[h].phase = "ack" /\ pay[h].success /\ pay[h].attempts = MaxAttempts
        /\ pay[h].commits = 1

\* C10: no payment row for the order and every attempt allowed fails: when
\* the message has been handled, after exactly that many attempts, the order
\* has exactly one row, FAILED, exactly one PaymentFailed was published for
\* it, and no PaymentProcessed.
C10_ExhaustedCharge ==
    \A h \in DOMAIN pay :
        LET s == pay[h]
            o == s.order_id
        IN  (s.phase = "ack" /\ RowsOf(s.pre_payments, o) = {} /\ ~s.success)
            => /\ s.attempts = MaxAttempts
               /\ Cardinality(RowsOf(payments, o)) = 1
               /\ \A r \in RowsOf(payments, o) : r.status = "FAILED"
               /\ Len(s.emitted) = 1
               /\ IsEvent(s.emitted[1], "PaymentFailed", o)
               /\ Published("PaymentFailed", o) = 1
               /\ Published("PaymentProcessed", o) = 0

\* C10 witness: three failed attempts, the FAILED row committed.
C10_Witness ==
    \E h \in DOMAIN pay :
        /\ pay[h].phase = "ack" /\ ~pay[h].success /\ pay[h].attempts = MaxAttempts
        /\ pay[h].commits = 1
        /\ \E r \in payments : r.order_id = pay[h].order_id /\ r.status = "FAILED"

\* C11: an invocation stores a FAILED row or emits PaymentFailed only when
\* its charge never succeeded and all its attempts are used up, whatever
\* happens to its commits and publishes.
C11_FailedOnlyAfterExhaustedCharge ==
    \A h \in DOMAIN pay :
        LET s == pay[h]
            o == s.order_id
            wrote == \E r \in RowsOf(payments, o) \ s.pre_payments : r.status = "FAILED"
            emitted == \E k \in DOMAIN s.emitted : IsEvent(s.emitted[k], "PaymentFailed", o)
        IN  (s.phase # "idle" /\ (wrote \/ emitted))
            => ~s.success /\ s.attempts = MaxAttempts

\* C12: PaymentProcessed of an existing order, whatever the order's status:
\* when it has been handled the status is COMPLETED and the handling emitted
\* exactly one OrderConfirmed, on order.confirmed, with the total of the
\* order record.
C12_PaymentProcessedCompletes ==
    \A h \in DOMAIN ord :
        LET s == ord[h]
            o == s.order_id
        IN  (s.phase = "ack" /\ s.key = "payment.processed" /\ o \in DOMAIN orders)
            => /\ orders[o].status = "COMPLETED"
               /\ Len(s.emitted) = 1
               /\ IsEvent(s.emitted[1], "OrderConfirmed", o)
               /\ s.emitted[1].routing_key = "order.confirmed"
               /\ s.emitted[1].amount = orders[o].total_amount

\* C12 witness: the order was CANCELLED before, and its total is not the
\* amount of the payment event.
C12_Witness ==
    \E h \in DOMAIN ord :
        LET s == ord[h]
        IN  /\ s.phase = "ack" /\ s.key = "payment.processed"
            /\ s.pre_status = "CANCELLED"
            /\ orders[s.order_id].status = "COMPLETED"
            /\ s.message.amount # orders[s.order_id].total_amount

\* C13: PaymentFailed of an existing order, whatever the order's status: when
\* it has been handled the status is CANCELLED and the handling emitted
\* exactly one OrderCancelled, on order.cancelled, with reason "Payment Failed".
C13_PaymentFailedCancels ==
    \A h \in DOMAIN ord :
        LET s == ord[h]
            o == s.order_id
        IN  (s.phase = "ack" /\ s.key = "payment.failed" /\ o \in DOMAIN orders)
            => /\ orders[o].status = "CANCELLED"
               /\ Len(s.emitted) = 1
               /\ IsEvent(s.emitted[1], "OrderCancelled", o)
               /\ s.emitted[1].routing_key = "order.cancelled"
               /\ s.emitted[1].reason = "Payment Failed"

\* C13 witness: the order was COMPLETED before.
C13_Witness ==
    \E h \in DOMAIN ord :
        LET s == ord[h]
        IN  /\ s.phase = "ack" /\ s.key = "payment.failed"
            /\ s.pre_status = "COMPLETED"
            /\ orders[s.order_id].status = "CANCELLED"
            /\ Len(s.emitted) = 1

\* C16: an outcome event handled for an order that already has the status
\* the event leads to: the handler writes nothing and emits nothing.
C16_RedeliveryNotReapplied ==
    \A h \in DOMAIN ord :
        LET s == ord[h]
        IN  (s.phase # "idle" /\ s.order_id \in DOMAIN orders
             /\ s.pre_status = NewStatus(s.key))
            => s.commits = 0 /\ s.emitted = <<>>

\* C17: the same outcome event handled twice in a row: after the second
\* handling the order has the status the first handling left.
C17_SameEventTwiceSameStatus ==
    \A h \in DOMAIN ord :
        LET s == ord[h]
            n == Len(delivered)
        IN  (/\ s.phase = "ack" /\ s.order_id \in DOMAIN orders
             /\ n >= 2 /\ delivered[n - 1] = delivered[n])
            => orders[s.order_id].status = s.pre_status

\* C17 witness: PaymentFailed handled twice after a PaymentProcessed of the
\* same order; the second handling committed its write.
C17_Witness ==
    \E h \in DOMAIN ord :
        LET s == ord[h]
        IN  /\ s.phase = "ack" /\ s.commits = 1 /\ Len(delivered) = 3
            /\ IsEvent(delivered[1], "PaymentProcessed", s.order_id)
            /\ IsEvent(delivered[2], "PaymentFailed", s.order_id)
            /\ delivered[3] = delivered[2]
            /\ orders[s.order_id].status = "CANCELLED"

\* The saga is at rest: nothing queued, no handler at work.
Quiesced ==
    /\ \A q \in QueueNames : queues[q] = <<>>
    /\ \A h \in DOMAIN inv : inv[h].phase = "idle"
    /\ \A h \in DOMAIN pay : pay[h].phase = "idle"
    /\ \A h \in DOMAIN ord : ord[h].phase = "idle"

\* Order o exists and asks for one unit of product p and nothing else.
OneUnitOf(o, p) ==
    o \in DOMAIN orders /\ orders[o].items = <<[product_id |-> p, quantity |-> 1]>>

StatusIs(o, status) == o \in DOMAIN orders /\ orders[o].status = status
PaymentIs(o, status) == \E r \in payments : r.order_id = o /\ r.status = status

\* C14: InventoryUnavailable of an existing order: when Order has handled it
\* the status is CANCELLED and the handling emitted exactly one OrderCancelled
\* with reason "Inventory Unavailable"; Inventory, handling that
\* OrderCancelled, finds no reservation row of the order and changes nothing.
C14_InventoryUnavailableCancels ==
    /\ \A h \in DOMAIN ord :
           LET s == ord[h]
               o == s.order_id
           IN  (s.phase = "ack" /\ s.key = "inventory.unavailable" /\ o \in DOMAIN orders)
               => /\ orders[o].status = "CANCELLED"
                  /\ Len(s.emitted) = 1
                  /\ IsEvent(s.emitted[1], "OrderCancelled", o)
                  /\ s.emitted[1].routing_key = "order.cancelled"
                  /\ s.emitted[1].reason = "Inventory Unavailable"
    /\ \A h \in DOMAIN inv :
           LET s == inv[h]
           IN  (s.key = "order.cancelled" /\ s.message.reason = "Inventory Unavailable")
               => /\ RowsOf(s.pre_reservations, s.order_id) = {}
                  /\ stock = s.pre_stock
                  /\ reservations = s.pre_reservations
                  /\ s.commits = 0

\* The case of C14 with every event delivered once, reached in the saga: the
\* OrderCancelled of an unavailable order was handled by Inventory.
C14_DeliveredOnce ==
    \E h \in DOMAIN inv :
        /\ inv[h].phase = "ack" /\ inv[h].key = "order.cancelled"
        /\ inv[h].message.reason = "Inventory Unavailable"
        /\ StatusIs(inv[h].order_id, "CANCELLED")

\* C15: a status COMPLETED or CANCELLED is never changed by any step.
C15_TerminalStatusIsFinal ==
    [][\A o \in DOMAIN orders :
           orders[o].status \in {"COMPLETED", "CANCELLED"}
               => orders'[o].status = orders[o].status]_vars

\* C18: an order for one unit of a product in stock: unless the charge uses
\* up its attempts, the saga ends with the order COMPLETED, the stock of the
\* product one less than seeded, the reservation row stored and the payment
\* PROCESSED, and stays so.
C18_Completed(o) ==
    \E p \in DOMAIN stock :
        /\ OneUnitOf(o, p)
        /\ StatusIs(o, "COMPLETED")
        /\ stock[p] = stock0[p] - 1
        /\ Reservation(o, p, 1) \in reservations
        /\ PaymentIs(o, "PROCESSED")

\* The charge of order o used up its attempts (and the FAILED row records it).
C18_ChargeExhausted(o) ==
    \/ \E h \in DOMAIN pay :
           pay[h].order_id = o /\ ~pay[h].success /\ pay[h].attempts = MaxAttempts
    \/ PaymentIs(o, "FAILED")

C18_SagaCompletes ==
    \A o \in SagaOrders :
        []((\E p \in DOMAIN stock0 : OneUnitOf(o, p) /\ stock0[p] >= 1)
              => <>(C18_ChargeExhausted(o) \/ []C18_Completed(o)))

\* C18 witness: the saga is at rest after the third attempt succeeded.
C18_Witness ==
    /\ Quiesced
    /\ C18_Completed("o1")
    /\ Published("OrderConfirmed", "o1") = 1

\* C19: an order with a line item of a product whose stock is 0 never has a
\* reservation row nor a payment row, no InventoryReserved is published and
\* no charge is attempted for it, and it ends CANCELLED and stays so.
C19_ZeroStock(o) ==
    /\ o \in DOMAIN orders
    /\ \E k \in DOMAIN orders[o].items :
           LET p == orders[o].items[k].product_id
           IN  p \in DOMAIN stock0 /\ stock0[p] = 0

C19_StockoutCancels ==
    \A o \in SagaOrders :
        [](C19_ZeroStock(o)
             => /\ RowsOf(reservations, o) = {}
                /\ RowsOf(payments, o) = {}
                /\ Published("InventoryReserved", o) = 0
                /\ \A h \in DOMAIN pay : pay[h].order_id # o
                /\ <>[]StatusIs(o, "CANCELLED"))

\* C19 witness: the first line item is in stock, the second has stock 0; the
\* saga is at rest with the order CANCELLED.
C19_Witness ==
    /\ Quiesced
    /\ C19_ZeroStock("o1")
    /\ Len(orders["o1"].items) = 2
    /\ ~Unavailable(stock0, orders["o1"].items[1])
    /\ StatusIs("o1", "CANCELLED")
    /\ Published("OrderCancelled", "o1") = 1

\* C20: an order that reserved one unit of a product, every event delivered
\* once: when the saga is at rest, either the order is CANCELLED, the stock
\* as seeded and the payment FAILED, or the order is COMPLETED, the stock one
\* less and the payment PROCESSED.
C20_QuiescentOutcomes ==
    \A o \in SagaOrders : \A p \in DOMAIN stock :
        (Quiesced /\ OneUnitOf(o, p) /\ Published("InventoryReserved", o) >= 1)
        => \/ /\ StatusIs(o, "CANCELLED")
              /\ stock[p] = stock0[p]
              /\ PaymentIs(o, "FAILED") /\ ~PaymentIs(o, "PROCESSED")
           \/ /\ StatusIs(o, "COMPLETED")
              /\ stock[p] = stock0[p] - 1
              /\ PaymentIs(o, "PROCESSED") /\ ~PaymentIs(o, "FAILED")

\* C20 witness: the payment failed, the reservation was released.
C20_Witness ==
    \E p \in DOMAIN stock :
        /\ Quiesced /\ OneUnitOf("o1", p)
        /\ Published("InventoryReserved", "o1") = 1
        /\ StatusIs("o1", "CANCELLED")
        /\ PaymentIs("o1", "FAILED")
        /\ stock[p] = stock0[p] /\ RowsOf(reservations, "o1") = {}

\* C21: events delivered more than once and in any interleaving: when the
\* saga is at rest, a COMPLETED order has a PROCESSED payment and still holds
\* its reservations, a CANCELLED order holds no reservation and has no
\* payment or a FAILED one.
C21_ConsistentAtQuiescence ==
    Quiesced =>
        \A o \in DOMAIN orders :
            /\ StatusIs(o, "COMPLETED")
                  => PaymentIs(o, "PROCESSED") /\ ReservedRows(o) \subseteq reservations
            /\ StatusIs(o, "CANCELLED")
                  => RowsOf(reservations, o) = {} /\ ~PaymentIs(o, "PROCESSED")

\* C22: OrderCreated delivered again to Inventory when the order already
\* holds its reservation rows: the handling changes no stock and no
\* reservation row and emits no InventoryUnavailable.
C22_RedeliveredOrderCreatedIsNoOp ==
    \A h \in DOMAIN inv :
        LET s == inv[h]
        IN  (/\ s.key = "order.created"
             /\ ReservedRows(s.order_id) \subseteq s.pre_reservations)
            => /\ stock = s.pre_stock
               /\ reservations = s.pre_reservations
               /\ \A k \in DOMAIN s.emitted :
                      ~IsEvent(s.emitted[k], "InventoryUnavailable", s.order_id)

\* The no-op half of C22, reached: the stock still covers the order, the
\* second insert is refused by the primary key and nothing is emitted.
C22_RefusedByKey ==
    \E h \in DOMAIN inv :
        LET s == inv[h]
        IN  /\ s.phase = "ack" /\ s.key = "order.created"
            /\ ReservedRows(s.order_id) \subseteq s.pre_reservations
            /\ \A k \in DOMAIN s.items : ~Unavailable(s.pre_stock, s.items[k])
            /\ s.emitted = <<>> /\ stock = s.pre_stock

\* C23: the status of every order is PENDING, COMPLETED or CANCELLED in every
\* state, and an order that appears starts PENDING.
C23_ReachableStatuses ==
    /\ [](\A o \in DOMAIN orders :
              orders[o].status \in {"PENDING", "COMPLETED", "CANCELLED"})
    /\ [][\A o \in DOMAIN orders' \ DOMAIN orders : orders'[o].status = "PENDING"]_vars

\* C23 witness: an order was created, reserved, its payment failed, and the
\* Order handler has written CANCELLED.
C23_Witness ==
    /\ StatusIs("o1", "CANCELLED")
    /\ PaymentIs("o1", "FAILED")
    /\ Published("OrderCreated", "o1") = 1
    /\ \E h \in DOMAIN ord : ord[h].phase = "publish" /\ ord[h].pre_status = "PENDING"

\* C24: no step of a handling of OrderCancelled publishes an event or puts a
\* message on a queue, whether reservations are found or not.
C24_CancellationPublishesNothing ==
    [][\A h \in DOMAIN inv :
           (inv[h].key = "order.cancelled" /\ inv'[h] # inv[h])
               => /\ published' = published
                  /\ queues' = queues
                  /\ inv[h].emitted = <<>>]_vars

\* C24 witness: a cancellation released a reservation and has returned; the
\* only event published is the InventoryReserved of the reservation.
C24_Witness ==
    \E h \in DOMAIN inv :
        /\ inv[h].phase = "ack" /\ inv[h].key = "order.cancelled"
        /\ inv[h].commits = 1
        /\ RowsOf(inv[h].pre_reservations, inv[h].order_id) # {}
        /\ Len(published) = 1
        /\ IsEvent(published[1], "InventoryReserved", inv[h].order_id)

\* C29: a handling makes at most three charge attempts, none after a
\* successful one, takes the failure branch only after three failed
\* attempts, and once it charges it returns, with the PROCESSED row stored
\* when an attempt succeeded and the FAILED row when none did.
C29_ChargeIsBounded ==
    /\ [](\A h \in DOMAIN pay :
              LET s == pay[h]
              IN  /\ s.attempts <= MaxAttempts
                  /\ s.success => s.phase # "charge"
                  /\ s.phase \in {"commit_failed", "publish_failed"}
                        => ~s.success /\ s.attempts = MaxAttempts
                  /\ (s.phase = "ack" /\ s.attempts > 0)
                        => /\ s.success => PaymentIs(s.order_id, "PROCESSED")
                           /\ ~s.success => /\ PaymentIs(s.order_id, "FAILED")
                                             /\ s.attempts = MaxAttempts)
    /\ (pay[1].phase = "charge") ~> (pay[1].phase = "ack" /\ pay[1].attempts > 0)

\* C29 witness: two failed attempts, then a successful one, and the handler
\* has returned.
C29_Witness ==
    \E h \in DOMAIN pay :
        /\ pay[h].phase = "ack" /\ pay[h].success /\ pay[h].attempts = 3
        /\ PaymentIs(pay[h].order_id, "PROCESSED")
        /\ Published("PaymentProcessed", pay[h].order_id) = 1

\* A step that leaves every store and the broker's queues as they are.
NothingChanges ==
    /\ orders' = orders /\ stock' = stock /\ reservations' = reservations
    /\ payments' = payments /\ published' = published /\ queues' = queues

\* An invocation of one of the three consumers stopped at its head by an error.
C25_Dropping(I, P, O) ==
    \/ \E h \in DOMAIN I : I[h].error \in {"JSONDecodeError", "KeyError"}
    \/ \E h \in DOMAIN P : P[h].error \in {"JSONDecodeError", "KeyError"}
    \/ \E h \in DOMAIN O : O[h].error \in {"JSONDecodeError", "KeyError"}

C26_AckAfterSideEffects ==
    /\ [](~AllIdle => acked + rejected < Len(delivered))
    /\ [][(acked' # acked \/ rejected' # rejected)
             => /\ NothingChanges
                /\ \/ \E h \in DOMAIN inv :
                          LET s == inv[h]
                          IN  /\ s.phase = "ack" /\ inv'[h].phase = "idle"
                              /\ (s.key = "order.created" /\ s.error = "")
                                    => /\ Len(s.emitted) = 1
                                       /\ s.commits = 1
                                            <=> s.emitted[1].event_type = "InventoryReserved"
                   \/ \E h \in DOMAIN pay :
                          LET s == pay[h]
                          IN  /\ s.phase = "ack" /\ pay'[h].phase = "idle"
                              /\ (s.attempts > 0 /\ s.error = "")
                                    => s.commits = 1 /\ Len(s.emitted) = 1
                   \/ \E h \in DOMAIN ord :
                          LET s == ord[h]
                          IN  /\ s.phase = "ack" /\ ord'[h].phase = "idle"
                              /\ (s.key \in OrderKeys /\ s.error = ""
                                     /\ s.order_id \in DOMAIN orders)
                                    => s.commits = 1 /\ Len(s.emitted) = 1]_vars

\* C26 witness: one InventoryReserved was charged, stored, announced and
\* then acknowledged.
C26_Witness ==
    /\ AllIdle /\ acked = 1
    /\ delivered = <<InventoryReserved("o1")>>
    /\ PaymentIs("o1", "PROCESSED")
    /\ Published("PaymentProcessed", "o1") = 1

\* The invocations at work.
C27_Active ==
    Cardinality({h \in DOMAIN inv : inv[h].phase # "idle"})
    + Cardinality({h \in DOMAIN pay : pay[h].phase # "idle"})
    + Cardinality({h \in DOMAIN ord : ord[h].phase # "idle"})

C28_Ignoring(I, O) ==
    \/ \E h \in DOMAIN I :
           I[h].phase # "idle" /\ I[h].message.routing_key \notin InventoryKeys
    \/ \E h \in DOMAIN O :
           O[h].phase # "idle" /\ O[h].message.routing_key \notin OrderKeys

\* C28: a delivery to Inventory or Order whose routing key none of the
\* consumer's handlers takes starts no handler: from its arrival to its
\* acknowledgment no store changes and nothing is published, and it ends
\* acknowledged, not rejected.
C28_UnmatchedKeyIsDropped ==
    /\ [](
           /\ \A h \in DOMAIN inv :
               (inv[h].phase # "idle" /\ inv[h].message.routing_key \notin InventoryKeys)
                   => /\ inv[h].phase = "ack" /\ inv[h].error = ""
                      /\ inv[h].commits = 0 /\ inv[h].emitted = <<>>
           /\ \A h \in DOMAIN ord :
               (ord[h].phase # "idle" /\ ord[h].message.routing_key \notin OrderKeys)
                   => /\ ord[h].phase = "ack" /\ ord[h].error = ""
                      /\ ord[h].commits = 0 /\ ord[h].emitted = <<>>)
    /\ [][(C28_Ignoring(inv, ord) \/ C28_Ignoring(inv', ord'))
             => /\ NothingChanges
                /\ rejected' = rejected /\ redelivered' = redelivered
                /\ C28_Ignoring(inv, ord) => acked' = acked + 1 /\ AllIdle']_vars

\* C28 witness: a reservation is held, then an event with routing key
\* order.confirmed reached Inventory and was acknowledged; the reservation
\* is still held.
C28_Witness ==
    /\ AllIdle /\ acked = 2 /\ Len(delivered) = 2
    /\ delivered[1] = OrderCreated("o1", orders["o1"].items)
    /\ delivered[2] = OrderConfirmed("o1", orders["o1"].total_amount)
    /\ reservations = ReservedRows("o1")
    /\ stock["product-A"] = MaxStock - 1

\* C30: a step of an Inventory handler leaves the orders and the payments
\* as they are, a step of the Payment handler the orders, the stock and the
\* reservations, a step of an Order handler the stock, the reservations and
\* the payments; reservation rows and stock change in steps of Inventory
\* only, payments in steps of Payment only, and the status of an order in
\* steps of Order only.
C30_OwnStoreOnly ==
    [][/\ inv' # inv => orders' = orders /\ payments' = payments
       /\ pay' # pay => orders' = orders /\ stock' = stock /\ reservations' = reservations
       /\ ord' # ord => stock' = stock /\ reservations' = reservations
                                      /\ payments' = payments
       /\ (reservations' # reservations \/ stock' # stock)
             => \E h \in DOMAIN inv : inv[h].phase \in {"commit", "delete"}
                                       /\ inv'[h].commits = inv[h].commits + 1
       /\ payments' # payments
             => \E h \in DOMAIN pay : pay'[h].commits = pay[h].commits + 1
       /\ (\E o \in DOMAIN orders : orders'[o] # orders[o])
             => \E h \in DOMAIN ord : ord'[h].commits = ord[h].commits + 1]_vars

\* C30 witness: all three stores were written for one order: the Order
\* handler cancelled it after a failed payment, Inventory has released the
\* reservation, and the payment row is as Payment wrote it.
C30_Witness ==
    /\ StatusIs("o1", "CANCELLED")
    /\ PaymentIs("o1", "FAILED")
    /\ RowsOf(reservations, "o1") = {}
    /\ Published("InventoryReserved", "o1") = 1
    /\ \E h \in DOMAIN inv : inv[h].phase = "ack" /\ inv[h].key = "order.cancelled"
                                /\ inv[h].commits = 1

\* The total quantity the reservation rows `rs` hold of product p.
RECURSIVE ReservedOf(_, _)
ReservedOf(rs, p) ==
    IF rs = {} THEN 0
    ELSE LET r == CHOOSE x \in rs : TRUE
         IN  (IF r.product_id = p THEN r.quantity ELSE 0) + ReservedOf(rs \ {r}, p)

\* C31: one message at a time at Inventory, OrderCreated and OrderCancelled
\* of any order any number of times and in any order: for every product the
\* stock plus the quantities of its reservation rows is the seeded stock, and
\* every reservation row is of a product that has a stock row.
C31_StockConservation ==
    /\ \A p \in DOMAIN stock : stock[p] + ReservedOf(reservations, p) = stock0[p]
    /\ \A r \in reservations : r.product_id \in DOMAIN stock

\* C31 witness: an order was reserved, released and reserved again; the stock
\* is below the seeded stock by what the rows hold.
C31_Witness ==
    \E h \in DOMAIN inv :
        /\ inv[h].phase = "ack" /\ inv[h].key = "order.created" /\ inv[h].commits = 1
        /\ Len(delivered) = 3
        /\ delivered[1] = delivered[3]
        /\ IsEvent(delivered[2], "OrderCancelled", inv[h].order_id)
        /\ PublishedOfType("InventoryReserved") = 2
        /\ \E p \in DOMAIN stock : stock[p] < stock0[p]

\* C32: for every order at most one payment outcome event is published in
\* all, PaymentProcessed and PaymentFailed counted together, also when the
\* invocations for one order overlap and when commits and publishes fail.
C32_OneOutcomeEventPerOrder ==
    \A o \in DOMAIN orders :
        Published("PaymentProcessed", o) + Published("PaymentFailed", o) <= 1

\* C32 witness: two invocations for one order both charged; one stored its
\* row and published, the other charged with the opposite result and was
\* refused at its insert.
C32_Witness ==
    \E h1, h2 \in DOMAIN pay :
        /\ h1 # h2 /\ pay[h1].order_id = pay[h2].order_id
        /\ pay[h1].phase = "ack" /\ pay[h1].success /\ Len(pay[h1].emitted) = 1
        /\ pay[h2].phase = "ack" /\ ~pay[h2].success /\ pay[h2].attempts = MaxAttempts
        /\ pay[h2].error = "IntegrityError" /\ pay[h2].emitted = <<>>
        /\ Published("PaymentProcessed", pay[h1].order_id) = 1

\* C33: an order for which PaymentProcessed was published has a PROCESSED
\* row, an order for which PaymentFailed was published a FAILED row, and a
\* row once stored is never changed or removed.
C33_EventsAgreeWithStore ==
    /\ [](\A o \in DOMAIN orders :
              /\ Published("PaymentProcessed", o) > 0 => PaymentIs(o, "PROCESSED")
              /\ Published("PaymentFailed", o) > 0 => PaymentIs(o, "FAILED"))
    /\ [][payments \subseteq payments']_vars

\* C33 witness: PaymentProcessed was published, and a later invocation for
\* the same order whose charge failed has returned; the row is PROCESSED.
C33_Witness ==
    \E h \in DOMAIN pay :
        /\ pay[h].phase = "ack" /\ ~pay[h].success /\ pay[h].attempts = MaxAttempts
        /\ Published("PaymentProcessed", pay[h].order_id) = 1
        /\ PaymentIs(pay[h].order_id, "PROCESSED")
        /\ pay[h].commits = 0

\* C34: an order that has a payment row, or for which a charge is being or
\* was attempted, is an order for which InventoryReserved was published, and
\* InventoryReserved is published only by an invocation that has committed
\* the reservation rows of its order; no order for which Inventory published
\* InventoryUnavailable and no InventoryReserved is ever charged.
C34_PaymentOnlyAfterReservation ==
    /\ [](\A o \in DOMAIN orders :
              (\/ RowsOf(payments, o) # {}
               \/ \E h \in DOMAIN pay : pay[h].phase # "idle" /\ pay[h].order_id = o)
                  => Published("InventoryReserved", o) >= 1)
    /\ [][\A o \in DOMAIN orders :
              Published("InventoryReserved", o)' > Published("InventoryReserved", o)
                  => \E h \in DOMAIN inv :
                         /\ inv[h].order_id = o /\ inv[h].commits = 1
                         /\ ReservedRows(o) \subseteq reservations]_vars

\* C34 witness: the order was reserved and InventoryReserved published, and
\* its charge has failed three times.
C34_Witness ==
    \E h \in DOMAIN pay :
        /\ pay[h].phase = "commit_failed" /\ pay[h].attempts = MaxAttempts
        /\ pay[h].order_id = "o1"
        /\ Published("InventoryReserved", "o1") = 1
        /\ ReservedRows("o1") \subseteq reservations

\* An invocation of an Order handler on an event whose order id has no record.
C36_Unknown(s) ==
    /\ s.phase # "idle" /\ s.key \in OrderKeys
    /\ Raised(s.message, {"order_id"}) = ""
    /\ s.message.order_id \notin DOMAIN orders

\* C36: an outcome event for an order id that has no order record: the
\* invocation commits nothing and emits nothing, no step of it changes or
\* creates an order or publishes, and it ends with the acknowledgment of the
\* message.
C36_UnknownOrderIsIgnored ==
    /\ [](\A h \in DOMAIN ord :
              C36_Unknown(ord[h])
                  => /\ ord[h].phase \in {"select", "ack"}
                     /\ ord[h].commits = 0 /\ ord[h].emitted = <<>>
                     /\ ord[h].error = "")
    /\ [][\A h \in DOMAIN ord :
              (ord'[h] # ord[h] /\ (C36_Unknown(ord[h]) \/ C36_Unknown(ord'[h])))
                  => /\ NothingChanges
                     /\ rejected' = rejected
                     /\ ord[h].phase = "ack" => acked' = acked + 1 /\ ord'[h] = OrdIdle]_vars

\* C36 witness: PaymentProcessed of an order id without a record was handled
\* and acknowledged; the orders are as they were created.
C36_Witness ==
    /\ AllIdle /\ acked = 1
    /\ delivered = <<PaymentProcessed(UnknownOrder, PlaceholderAmount)>>
    /\ UnknownOrder \notin DOMAIN orders
    /\ \A o \in DOMAIN orders : orders[o].status = "PENDING"
    /\ published = <<>>

\* C37: one message at a time: when a cancellation of order O has been
\* handled, the reservation rows of every other order are the rows there
\* were before, and the stock of every product is the stock before plus the
\* quantity O had reserved of it (nothing, for a product O had no row of).
C37_CancellationTouchesOnlyItsOrder ==
    \A h \in DOMAIN inv :
        LET s == inv[h]
            own == RowsOf(s.pre_reservations, s.order_id)
        IN  (s.phase = "ack" /\ s.key = "order.cancelled" /\ s.error = "")
            => /\ reservations = s.pre_reservations \ own
               /\ \A p \in DOMAIN stock : stock[p] = s.pre_stock[p] + ReservedOf(own, p)

\* C37 witness: two orders held reservations, of different quantities of one
\* product; one was cancelled, the rows of the other are still there.
C37_Witness ==
    \E h \in DOMAIN inv :
        LET s == inv[h]
        IN  /\ s.phase = "ack" /\ s.key = "order.cancelled" /\ s.commits = 1
            /\ RowsOf(s.pre_reservations, s.order_id) # {}
            /\ \E r \in reservations : r.order_id # s.order_id
            /\ \E p \in DOMAIN stock : stock[p] = s.pre_stock[p]
            /\ \E p \in DOMAIN stock : stock[p] > s.pre_stock[p]

\* C38: an OrderCreated that lists one product in two line items: when it has
\* been handled exactly one event was emitted for it, and InventoryReserved
\* only when the stock of every product covered the sum of its line items.
C38_RepeatedProductIsHandled ==
    \A h \in DOMAIN inv :
        LET s == inv[h]
        IN  (/\ s.phase = "ack" /\ s.key = "order.created" /\ Len(s.items) = 2
             /\ s.items[1].product_id = s.items[2].product_id)
            => /\ Len(s.emitted) = 1
               /\ s.emitted[1].event_type \in {"InventoryReserved", "InventoryUnavailable"}
               /\ s.emitted[1].event_type = "InventoryReserved"
                     => \A p \in DOMAIN s.pre_stock : Asked(s.items, p) <= s.pre_stock[p]

\* The invocation of Inventory committed the reservation of o1 and its
\* publish of InventoryReserved failed.
C35_InventoryLost ==
    /\ inv[1].phase = "ack" /\ inv[1].key = "order.created"
    /\ inv[1].commits = 1 /\ inv[1].emitted = <<>>

\* The invocation of Payment stored the row of o1 with `status` and its
\* publish of the outcome event failed.
C35_PaymentLost(status) ==
    /\ pay[1].phase \in {"commit_failed", "ack"}
    /\ pay[1].commits = 1 /\ pay[1].emitted = <<>>
    /\ pay[1].success <=> status = "PROCESSED"

\* The invocation of Order wrote the status of o1 and its publish failed.
C35_OrderLost(key) ==
    /\ ord[1].phase = "ack" /\ ord[1].key = key
    /\ ord[1].commits = 1 /\ ord[1].emitted = <<>>

\* C35: every event delivered once, any publish may fail.  Once the publish
\* that follows a commit has failed, the committed rows stay as committed and
\* the event is never published: the reservation and the debited stock, the
\* payment row (a PROCESSED row stays the only row of the order, and no
\* PaymentFailed is published either), the status of the order.  The
\* invocation ends with the acknowledgment of its message.
C35_FailedPublishKeepsCommit ==
    /\ [](C35_InventoryLost
            => [](/\ Published("InventoryReserved", "o1") = 0
                  /\ \A o \in DOMAIN orders : reservations = ReservedRows(o)
                  /\ \A o \in DOMAIN orders : \A p \in DOMAIN stock :
                         stock[p] = stock0[p] - Asked(orders[o].items, p)))
    /\ [](C35_PaymentLost("PROCESSED")
            => [](/\ RowsOf(payments, "o1") = {Payment("o1", PlaceholderAmount, "PROCESSED")}
                  /\ Published("PaymentProcessed", "o1") = 0
                  /\ Published("PaymentFailed", "o1") = 0))
    /\ [](C35_PaymentLost("FAILED")
            => [](/\ RowsOf(payments, "o1") = {Payment("o1", PlaceholderAmount, "FAILED")}
                  /\ Published("PaymentFailed", "o1") = 0))
    /\ [](C35_OrderLost("payment.processed")
            => [](StatusIs("o1", "COMPLETED") /\ Published("OrderConfirmed", "o1") = 0))
    /\ [](C35_OrderLost("payment.failed") \/ C35_OrderLost("inventory.unavailable")
            => [](StatusIs("o1", "CANCELLED") /\ Published("OrderCancelled", "o1") = 0))
    /\ [][/\ (C35_InventoryLost /\ inv'[1] # inv[1])
               => acked' = acked + 1 /\ rejected' = rejected /\ inv'[1] = InvIdle
          /\ ((C35_PaymentLost("PROCESSED") \/ C35_PaymentLost("FAILED"))
                 /\ pay[1].phase = "ack" /\ pay'[1] # pay[1])
               => acked' = acked + 1 /\ rejected' = rejected /\ pay'[1] = PayIdle
          /\ (ord[1].phase = "ack" /\ ord[1].commits = 1 /\ ord[1].emitted = <<>>
                 /\ ord'[1] # ord[1])
               => acked' = acked + 1 /\ rejected' = rejected /\ ord'[1] = OrdIdle]_vars
    /\ C35_InventoryLost ~> (inv[1].phase = "idle")
    /\ C35_PaymentLost("PROCESSED") ~> (pay[1].phase = "idle")
    /\ C35_OrderLost("payment.processed") ~> (ord[1].phase = "idle")

\* C35 witness: the charge succeeded, the PROCESSED row is stored, the
\* publish of PaymentProcessed failed, the insert of a FAILED row was refused
\* and the message is acknowledged.
C35_Witness ==
    /\ Quiesced /\ acked = 2
    /\ RowsOf(payments, "o1") = {Payment("o1", PlaceholderAmount, "PROCESSED")}
    /\ Published("InventoryReserved", "o1") = 1
    /\ Published("PaymentProcessed", "o1") = 0
    /\ Published("PaymentFailed", "o1") = 0
    /\ StatusIs("o1", "PENDING")

\* C39: every order record has exactly one OrderCreated published for it,
\* carrying its id and its items; an outcome event that Order handles finds
\* the record of its order.
C39_CreatedOrderIsAnnounced ==
    /\ \A o \in DOMAIN orders :
           /\ Published("OrderCreated", o) = 1
           /\ \A k \in DOMAIN published :
                  IsEvent(published[k], "OrderCreated", o)
                      => published[k].items = orders[o].items
    /\ \A h \in DOMAIN ord :
           ord[h].phase # "idle" => ord[h].order_id \in DOMAIN orders

\* C40: the amount of every payment row and of every PaymentProcessed is the
\* placeholder, whatever the stored total of its order (so the rows and
\* events of two orders, or of two runs, that differ in the total only differ
\* in nothing but the order id), and every OrderConfirmed carries the stored
\* total of its own order.
C40_AmountIsPlaceholder ==
    /\ \A r \in payments : r.amount = PlaceholderAmount
    /\ \A h \in DOMAIN pay : pay[h].phase # "idle" => pay[h].amount = PlaceholderAmount
    /\ \A k \in DOMAIN published :
           /\ published[k].event_type = "PaymentProcessed"
                  => published[k].amount = PlaceholderAmount
           /\ published[k].event_type = "OrderConfirmed"
                  => published[k].amount = orders[published[k].order_id].total_amount
    /\ \A r1, r2 \in payments :
           r1.status = r2.status => [r1 EXCEPT !.order_id = ""] = [r2 EXCEPT !.order_id = ""]

\* C40 witness: two orders with different totals, both charged and confirmed:
\* equal payment amounts, different OrderConfirmed amounts.
C40_Witness ==
    /\ orders["o1"].total_amount # orders["o2"].total_amount
    /\ PaymentIs("o1", "PROCESSED") /\ PaymentIs("o2", "PROCESSED")
    /\ \E j, k \in DOMAIN published :
           /\ IsEvent(published[j], "OrderConfirmed", "o1")
           /\ IsEvent(published[k], "OrderConfirmed", "o2")
           /\ published[j].amount # published[k].amount

====
